---- MODULE Spec2Model ----
(***************************************************************************)
(* The sparse voxel octree of crafter: Ocnode (src/src/ocnode.rs), Octree  *)
(* (src/src/octree.rs) and the cube mesh emitter (src/src/cube.rs).        *)
(*                                                                         *)
(* A tree is a record [depth, nodes].  The shape of the tree is the one    *)
(* decimate builds and never changes afterwards, so it is computed from    *)
(* new/subdivide on demand; `nodes` holds, by (x, y, z, level), the nodes  *)
(* an operation has written to.  A node that is not in `nodes` is exactly  *)
(* the record subdivide created.                                           *)
(***************************************************************************)
EXTENDS Integers, Sequences, FiniteSets, TLC

LEVELS == 8

OctreeLEVELS == 9

\* Edits (toggle, paint) explored per behaviour.
MaxOps == 3

\* Deepest subtree of as-built nodes that a tree walk enumerates node by node,
\* and the deepest tree decimate is asked for besides LEVELS.
MaxDepth == 2

----------------------------------------------------------------------------
(* Coordinate / resolution math *)

range == (2 ^ (LEVELS - 1)) \div 2

\* checked_sub(..).expect(""): a level past LEVELS panics; Panic stands for it.
Panic == -1

\* resolution with LEVELS.saturating_sub(level): no panic below the finest
\* level.
resolution_saturating(sub_division_level) ==
    IF sub_division_level > LEVELS THEN 1 ELSE 2 ^ (LEVELS - sub_division_level)

resolution(sub_division_level) ==
    IF sub_division_level > LEVELS THEN Panic ELSE 2 ^ (LEVELS - sub_division_level)

----------------------------------------------------------------------------
(* Values the operations are driven with *)

\* color is [f32; 4]; the components are written in tenths (0.8 -> 8).
DefaultColor == <<8, 8, 8, 8>>

Red == <<10, 0, 0, 10>>

Green == <<0, 10, 0, 10>>

Materials ==
    { [color |-> Red,   fluid |-> 0, noise |-> 0],
      [color |-> Green, fluid |-> 0, noise |-> 0],
      [color |-> Red,   fluid |-> 1, noise |-> 0],
      [color |-> Red,   fluid |-> 0, noise |-> 1] }

\* The position lists toggle_voxels is called with: the origin with its
\* upper neighbours on y and z; its two neighbours on x, one of them in
\* another branch of the root; the upper corner of [-range, range)^3 with
\* two coordinates outside it; the lower corner alone.
Selections ==
    { << <<0, 0, 0>>, <<0, 1, 0>>, <<0, 0, 1>> >>,
      << <<1, 0, 0>>, <<-1, 0, 0>> >>,
      << <<range - 1, range - 1, range - 1>>, <<range, 0, 0>>,
         <<0, 0, -range - 1>> >>,
      << <<-range, -range, -range>> >> }

\* (value, material) pairs toggle_voxels is called with.
ToggleModes ==
    { <<TRUE, m>> : m \in Materials } \cup
    { <<FALSE, [color |-> Red, fluid |-> 0, noise |-> 0]>> }

\* The (x, y, z, level) paint_connected_nodes is seeded with: the origin,
\* its neighbour on x, and a coordinate outside the tree.
Collisions == { <<0, 0, 0, LEVELS>>, <<1, 0, 0, LEVELS>>, <<range, 0, 0, LEVELS>> }

\* The materials paint_connected_nodes is called with.
PaintMaterials ==
    { [color |-> Green, fluid |-> 0, noise |-> 0],
      [color |-> Red,   fluid |-> 0, noise |-> 0] }

\* The finest-level coordinates of the selections.
Positions == UNION { { s[i] : i \in DOMAIN s } : s \in Selections }

\* A depth decimate is called with that is below the finest level.
FatalDepths == {LEVELS + 1}

\* The depths decimate is called with.
BuildDepths == (1..MaxDepth) \cup {LEVELS}

----------------------------------------------------------------------------
(* Ocnode *)

\* Option<&Ocnode>: <<>> is None, <<n>> is Some(n).
None == <<>>

Some(n) == <<n>>

Key(n) == <<n.x_index, n.y_index, n.z_index, n.sub_division_level>>

new ==
    [ x_index |-> -range, y_index |-> -range, z_index |-> -range,
      sub_division_level |-> 1,
      active |-> FALSE,
      has_children |-> FALSE,
      color |-> DefaultColor, fluid |-> 0, noise |-> 0,
      front_occluded_calculated |-> FALSE,
      back_occluded_calculated |-> FALSE,
      top_occluded_calculated |-> FALSE,
      bottom_occluded_calculated |-> FALSE,
      left_occluded_calculated |-> FALSE,
      right_occluded_calculated |-> FALSE ]

\* One child of subdivide: the parent's index moved by (dx, dy, dz) steps of
\* the child's resolution, one level down, inactive, no flag set.
\* SubNode with the child made active.
SubNode_active(self, dx, dy, dz) ==
    [ new EXCEPT
        !.x_index = self.x_index + dx,
        !.y_index = self.y_index + dy,
        !.z_index = self.z_index + dz,
        !.sub_division_level = self.sub_division_level + 1,
        !.active = TRUE,
        !.color = self.color,
        !.fluid = self.fluid,
        !.noise = self.noise ]

SubNode(self, dx, dy, dz) ==
    [ x_index |-> self.x_index + dx * resolution(self.sub_division_level + 1),
      y_index |-> self.y_index + dy * resolution(self.sub_division_level + 1),
      z_index |-> self.z_index + dz * resolution(self.sub_division_level + 1),
      sub_division_level |-> self.sub_division_level + 1,
      active |-> FALSE,
      has_children |-> FALSE,
      color |-> self.color, fluid |-> self.fluid, noise |-> self.noise,
      front_occluded_calculated |-> FALSE,
      back_occluded_calculated |-> FALSE,
      top_occluded_calculated |-> FALSE,
      bottom_occluded_calculated |-> FALSE,
      left_occluded_calculated |-> FALSE,
      right_occluded_calculated |-> FALSE ]

\* The steps from the parent's index to children[0..7]'s (1..8 here).
ChildSteps ==
    << <<0, 0, 0>>, <<1, 0, 0>>, <<0, 1, 0>>, <<0, 0, 1>>,
       <<1, 1, 0>>, <<0, 1, 1>>, <<1, 0, 1>>, <<1, 1, 1>> >>

\* children[0..7] as subdivide fills them.
subdivide(self) ==
    [i \in 1..8 |->
        SubNode(self, ChildSteps[i][1], ChildSteps[i][2], ChildSteps[i][3])]

\* decimate(d) subdivides a node and decimates its children with d - 1 while
\* d - 1 > 0: after Octree::decimate(depth) the nodes with children are
\* those of a level below depth.
Decimated(n, depth) == [n EXCEPT !.has_children = (n.sub_division_level < depth)]

RECURSIVE decimate_panics(_, _)
\* Ocnode::decimate(sub_division_level) on a node of this level panics:
\* subdivide calls resolution(level + 1), which panics below the finest
\* level, and every child is decimated with sub_division_level - 1.
decimate_panics(level, sub_division_level) ==
    IF sub_division_level - 1 > 0
    THEN \/ resolution(level + 1) = Panic
         \/ decimate_panics(level + 1, sub_division_level - 1)
    ELSE FALSE

RECURSIVE decimate_depth(_, _)
\* The level of the nodes Ocnode::decimate(sub_division_level) on a node of
\* this level stops at.
decimate_depth(level, sub_division_level) ==
    IF sub_division_level - 1 > 0
    THEN decimate_depth(level + 1, sub_division_level - 1)
    ELSE level

\* The node as it is now: as written if an operation wrote to it, as built
\* otherwise.
Cur(t, n) == IF Key(n) \in DOMAIN t.nodes THEN t.nodes[Key(n)] ELSE n

\* The root of a tree built to `depth`, and children[i - 1] of one of its
\* nodes, as built.
BuiltRoot(depth) == Decimated(new, depth)

BuiltChild(depth, self, i) == Decimated(subdivide(self)[i], depth)

Root(t) == Cur(t, BuiltRoot(t.depth))

\* The tree with node n (found in it) replaced by n.
Put(t, n) ==
    [t EXCEPT !.nodes = [k \in DOMAIN t.nodes \cup {Key(n)} |->
                            IF k = Key(n) THEN n ELSE t.nodes[k]]]

\* Contains with the lower bounds exclusive.
Contains_above(self, x, y, z) ==
    /\ x > self.x_index
    /\ x <= self.x_index + resolution(self.sub_division_level)
    /\ y > self.y_index
    /\ y <= self.y_index + resolution(self.sub_division_level)
    /\ z > self.z_index
    /\ z <= self.z_index + resolution(self.sub_division_level)

Contains(self, x, y, z) ==
    /\ x >= self.x_index
    /\ x <= self.x_index + resolution(self.sub_division_level)
    /\ y >= self.y_index
    /\ y <= self.y_index + resolution(self.sub_division_level)
    /\ z >= self.z_index
    /\ z <= self.z_index + resolution(self.sub_division_level)

RECURSIVE Search(_, _, _, _, _, _)
RECURSIVE SearchChildren(_, _, _, _, _, _, _)

\* The loop of find_by_index over the children: the first child whose
\* search succeeds.
SearchChildren(depth, self, i, x, y, z, level) ==
    IF i > 8 THEN None
    ELSE LET child == Search(depth, BuiltChild(depth, self, i), x, y, z, level)
         IN  IF child # None THEN child
             ELSE SearchChildren(depth, self, i + 1, x, y, z, level)

\* find_by_index / find_mut_by_index on the tree as built to `depth`.  The
\* descent reads only index, level and has_children, which no operation
\* writes, so the node it ends at is the same in every state of the tree.
Search(depth, self, x, y, z, level) ==
    IF level = self.sub_division_level
    THEN IF self.x_index = x /\ self.y_index = y /\ self.z_index = z
         THEN Some(self) ELSE None
    ELSE IF Contains(self, x, y, z) /\ self.has_children
         THEN SearchChildren(depth, self, 1, x, y, z, level)
         ELSE None

\* The searches the operations below make from the root: the positions and
\* their face neighbours, at the two LEVELS constants.
Queries ==
    { <<d, p[1] + v[1], p[2] + v[2], p[3] + v[3], l>> :
        d \in BuildDepths, p \in Positions,
        v \in { <<0, 0, 0>>, <<1, 0, 0>>, <<-1, 0, 0>>, <<0, 1, 0>>,
                <<0, -1, 0>>, <<0, 0, 1>>, <<0, 0, -1>> },
        l \in {LEVELS, OctreeLEVELS} }

\* Search from the root, computed once per query.
SearchTable ==
    [q \in Queries |-> Search(q[1], BuiltRoot(q[1]), q[2], q[3], q[4], q[5])]

\* root.find_by_index(x, y, z, level) in tree t: the node the descent ends
\* at, as it is now.
find_by_index(t, x, y, z, level) ==
    LET q == <<t.depth, x, y, z, level>>
        found == IF q \in Queries THEN SearchTable[q]
                 ELSE Search(t.depth, BuiltRoot(t.depth), x, y, z, level)
    IN  IF found = None THEN None ELSE Some(Cur(t, found[1]))

\* find_mut_by_index is the same search; the node it returns is written
\* back with Put.
find_mut_by_index(t, x, y, z, level) == find_by_index(t, x, y, z, level)

\* uniform comparing the colour only.
uniform_color_only(self, compare) ==
    ~ ( \/ compare.color[1] # self.color[1]
        \/ compare.color[2] # self.color[2]
        \/ compare.color[3] # self.color[3]
        \/ compare.color[4] # self.color[4] )

\* uniform comparing the cached occlusion flags as well.
uniform_with_occlusion(self, compare) ==
    ~ ( \/ compare.color # self.color
        \/ compare.fluid # self.fluid
        \/ compare.noise # self.noise
        \/ compare.left_occluded_calculated # self.left_occluded_calculated
        \/ compare.right_occluded_calculated # self.right_occluded_calculated
        \/ compare.top_occluded_calculated # self.top_occluded_calculated
        \/ compare.bottom_occluded_calculated # self.bottom_occluded_calculated
        \/ compare.front_occluded_calculated # self.front_occluded_calculated
        \/ compare.back_occluded_calculated # self.back_occluded_calculated )

uniform(self, compare) ==
    ~ ( \/ compare.color[1] # self.color[1]
        \/ compare.color[2] # self.color[2]
        \/ compare.color[3] # self.color[3]
        \/ compare.color[4] # self.color[4]
        \/ compare.fluid # self.fluid
        \/ compare.noise # self.noise )

\* The shared body of the six *_occluded methods: the node found at the
\* same level, if any, is active and uniform with self.
OccludedBy(self, maybe) ==
    IF maybe # None
    THEN IF maybe[1].active THEN uniform(self, maybe[1]) ELSE FALSE
    ELSE FALSE

bottom_occluded(self, root) ==
    OccludedBy(self, find_by_index(root, self.x_index,
        self.y_index - resolution(self.sub_division_level), self.z_index,
        self.sub_division_level))

left_occluded(self, root) ==
    OccludedBy(self, find_by_index(root,
        self.x_index - resolution(self.sub_division_level), self.y_index,
        self.z_index, self.sub_division_level))

\* right_occluded looking to the left.
right_occluded_as_left(self, root) ==
    OccludedBy(self, find_by_index(root,
        self.x_index - resolution(self.sub_division_level), self.y_index,
        self.z_index, self.sub_division_level))

right_occluded(self, root) ==
    OccludedBy(self, find_by_index(root,
        self.x_index + resolution(self.sub_division_level), self.y_index,
        self.z_index, self.sub_division_level))

front_occluded(self, root) ==
    OccludedBy(self, find_by_index(root, self.x_index, self.y_index,
        self.z_index - resolution(self.sub_division_level),
        self.sub_division_level))

back_occluded(self, root) ==
    OccludedBy(self, find_by_index(root, self.x_index, self.y_index,
        self.z_index + resolution(self.sub_division_level),
        self.sub_division_level))

top_occluded(self, root) ==
    OccludedBy(self, find_by_index(root, self.x_index,
        self.y_index + resolution(self.sub_division_level), self.z_index,
        self.sub_division_level))

\* The six assignments of recalculate_occlusion on one node, each flag
\* computed against the tree `root`.
WithOcclusion(self, root) ==
    [self EXCEPT
        !.front_occluded_calculated  = front_occluded(self, root),
        !.back_occluded_calculated   = back_occluded(self, root),
        !.top_occluded_calculated    = top_occluded(self, root),
        !.bottom_occluded_calculated = bottom_occluded(self, root),
        !.left_occluded_calculated   = left_occluded(self, root),
        !.right_occluded_calculated  = right_occluded(self, root)]

\* recalculate_occlusion without the test of self.active: the written nodes
\* get their six flags whether active or not.
recalculate_occlusion_every_node(t) ==
    [t EXCEPT !.nodes = [k \in DOMAIN t.nodes |-> WithOcclusion(t.nodes[k], t)]]

\* Ocnode::recalculate_occlusion from the root: every active node gets its
\* six flags from `root`, the clone Octree::recalculate_occlusion took
\* before the walk.  An active node is a written node (subdivide builds
\* inactive ones), so the walk is the written nodes.
recalculate_occlusion(t) ==
    [t EXCEPT !.nodes = [k \in DOMAIN t.nodes |->
        IF t.nodes[k].active
        THEN WithOcclusion(t.nodes[k], t)
        ELSE t.nodes[k]]]

\* optimize with the assignments of the commented-out body made at the
\* root: active when no child is inactive and the children are uniform, and
\* the material of the last active child.
optimize_at_root(t, camera_eye) ==
    LET self == Root(t)
        kids == [i \in 1..8 |-> Cur(t, BuiltChild(t.depth, self, i))]
        pegs == { i \in 1..8 : kids[i].active }
        peg == kids[CHOOSE i \in pegs : \A j \in pegs : j <= i]
        has_hole == \E i \in 1..8 : ~ kids[i].active
        not_uniform == \E i \in 1..8 :
                          \/ kids[i].color # peg.color
                          \/ kids[i].fluid # peg.fluid
                          \/ kids[i].noise # peg.noise
        optimized == IF pegs = {} THEN [self EXCEPT !.active = FALSE]
                     ELSE [self EXCEPT !.active = (~ has_hole /\ ~ not_uniform),
                                       !.color = peg.color,
                                       !.fluid = peg.fluid,
                                       !.noise = peg.noise]
    IN  IF ~ self.has_children \/ optimized = self THEN t
        ELSE Put(t, optimized)

\* Ocnode::optimize: the body is commented out.
optimize(t, camera_eye) == t

RECURSIVE all_voxels_active_any(_, _)
\* all_voxels_active answering whether one of the positions is active.
all_voxels_active_any(t, positions) ==
    IF positions = <<>> THEN FALSE
    ELSE LET pos == Head(positions)
             found == find_by_index(t, pos[1], pos[2], pos[3], LEVELS)
         IN  IF found # None /\ found[1].active THEN TRUE
             ELSE all_voxels_active_any(t, Tail(positions))

RECURSIVE all_voxels_active_miss_inactive(_, _)
\* all_voxels_active with a position that finds no node counted as inactive.
all_voxels_active_miss_inactive(t, positions) ==
    IF positions = <<>> THEN TRUE
    ELSE LET pos == Head(positions)
             found == find_by_index(t, pos[1], pos[2], pos[3], LEVELS)
         IN  IF found # None /\ found[1].active
             THEN all_voxels_active_miss_inactive(t, Tail(positions))
             ELSE FALSE

RECURSIVE all_voxels_active(_, _)
\* Ocnode::all_voxels_active, the loop over positions from the first on.
all_voxels_active(t, positions) ==
    IF positions = <<>> THEN TRUE
    ELSE LET pos == Head(positions)
             found == find_by_index(t, pos[1], pos[2], pos[3], LEVELS)
         IN  IF found # None
             THEN IF ~ found[1].active THEN FALSE
                  ELSE all_voxels_active(t, Tail(positions))
             ELSE all_voxels_active(t, Tail(positions))

\* The nearest index inside [-range, range).
Clamp(i) == IF i < -range THEN -range ELSE IF i >= range THEN range - 1 ELSE i

RECURSIVE toggle_voxels_clamped(_, _, _, _, _, _)
\* toggle_voxels with every position moved into the tree first.
toggle_voxels_clamped(t, positions, value, color, fluid, noise) ==
    IF positions = <<>> THEN t
    ELSE LET position == Head(positions)
             maybe == find_mut_by_index(t, Clamp(position[1]),
                                        Clamp(position[2]),
                                        Clamp(position[3]), LEVELS)
             next == IF maybe # None
                     THEN Put(t, [maybe[1] EXCEPT !.active = value,
                                                  !.color = color,
                                                  !.fluid = fluid,
                                                  !.noise = noise])
                     ELSE t
         IN  toggle_voxels_clamped(next, Tail(positions), value, color,
                                   fluid, noise)

RECURSIVE toggle_voxels_reset_flags(_, _, _, _, _, _)
\* toggle_voxels that also clears the six flags of the node it writes.
toggle_voxels_reset_flags(t, positions, value, color, fluid, noise) ==
    IF positions = <<>> THEN t
    ELSE LET position == Head(positions)
             maybe == find_mut_by_index(t, position[1], position[2],
                                        position[3], LEVELS)
             next == IF maybe # None
                     THEN Put(t, [SubNode(maybe[1], 0, 0, 0) EXCEPT
                                     !.x_index = maybe[1].x_index,
                                     !.y_index = maybe[1].y_index,
                                     !.z_index = maybe[1].z_index,
                                     !.sub_division_level =
                                         maybe[1].sub_division_level,
                                     !.has_children = maybe[1].has_children,
                                     !.active = value,
                                     !.color = color,
                                     !.fluid = fluid,
                                     !.noise = noise])
                     ELSE t
         IN  IF next = t
             THEN toggle_voxels_reset_flags(t, Tail(positions), value, color,
                                            fluid, noise)
             ELSE toggle_voxels_reset_flags(next, Tail(positions), value,
                                            color, fluid, noise)

RECURSIVE toggle_voxels_coarse(_, _, _, _, _, _)
\* toggle_voxels looking the positions up one level above the finest.
toggle_voxels_coarse(t, positions, value, color, fluid, noise) ==
    IF positions = <<>> THEN t
    ELSE LET position == Head(positions)
             maybe == find_mut_by_index(t, position[1], position[2],
                                        position[3], LEVELS - 1)
             next == IF maybe # None
                     THEN Put(t, [maybe[1] EXCEPT !.active = value,
                                                  !.color = color,
                                                  !.fluid = fluid,
                                                  !.noise = noise])
                     ELSE t
         IN  IF next = t
             THEN toggle_voxels_coarse(t, Tail(positions), value, color,
                                       fluid, noise)
             ELSE toggle_voxels_coarse(next, Tail(positions), value, color,
                                       fluid, noise)

RECURSIVE toggle_voxels(_, _, _, _, _, _)
\* Ocnode::toggle_voxels, the loop over positions from the first on.
toggle_voxels(t, positions, value, color, fluid, noise) ==
    IF positions = <<>> THEN t
    ELSE LET position == Head(positions)
             maybe == find_mut_by_index(t, position[1], position[2],
                                        position[3], LEVELS)
             next == IF maybe # None
                     THEN Put(t, [maybe[1] EXCEPT !.active = value,
                                                  !.color = color,
                                                  !.fluid = fluid,
                                                  !.noise = noise])
                     ELSE t
         IN  IF next = t
             THEN toggle_voxels(t, Tail(positions), value, color, fluid, noise)
             ELSE toggle_voxels(next, Tail(positions), value, color, fluid,
                                noise)

\* Octree::recalculate_occlusion_for_selections
variations ==
    << <<0, 0, 0>>, <<1, 0, 0>>, <<-1, 0, 0>>, <<0, 1, 0>>,
       <<0, -1, 0>>, <<0, 0, 1>>, <<0, 0, 1>>, <<0, 0, -1>> >>

\* The body of the inner loop: the node at position + variant, looked up at
\* octree.rs's LEVELS, gets its six flags if it is found and active.
RecalculateVariant(t, position, variant) ==
    LET maybe == find_by_index(t, position[1] + variant[1],
                               position[2] + variant[2],
                               position[3] + variant[3], OctreeLEVELS)
    IN  IF maybe # None
        THEN IF maybe[1].active THEN Put(t, WithOcclusion(maybe[1], t)) ELSE t
        ELSE t

RECURSIVE RecalculateVariants(_, _, _)
RecalculateVariants(t, position, i) ==
    IF i > Len(variations) THEN t
    ELSE LET next == RecalculateVariant(t, position, variations[i])
         IN  \* the test leaves the value alone: it has `next` computed
             \* before the rest of the loop runs
             IF next = t THEN RecalculateVariants(t, position, i + 1)
             ELSE RecalculateVariants(next, position, i + 1)

RECURSIVE recalculate_occlusion_for_selections(_, _)
recalculate_occlusion_for_selections(t, selections) ==
    IF selections = <<>> THEN t
    ELSE LET next == RecalculateVariants(t, Head(selections), 1)
         IN  IF next = t
             THEN recalculate_occlusion_for_selections(t, Tail(selections))
             ELSE recalculate_occlusion_for_selections(next, Tail(selections))

\* contains that does not look at the first element, the seed.
InList_after_seed(completed, c) ==
    \E i \in DOMAIN completed \ {1} : completed[i] = c

InList(completed, c) == \E i \in DOMAIN completed : completed[i] = c

RECURSIVE paint_connected_nodes_with_completion(_, _, _, _, _)
RECURSIVE paint_front_back(_, _, _, _, _)
\* paint_connected_nodes_with_completion going to z + 1 for the front flag
\* and to z - 1 for the back flag.
paint_front_back(s, collision, material_color, noise, fluid) ==
    LET x == collision[1]
        y == collision[2]
        z == collision[3]
        level == collision[4]
        candidate_opt == find_mut_by_index(s.t, x, y, z, level)
    IN  IF candidate_opt = None THEN s
        ELSE
        LET candidate == candidate_opt[1]
            s0 == [t |-> Put(s.t, [candidate EXCEPT !.color = material_color,
                                                    !.noise = noise,
                                                    !.fluid = fluid]),
                   completed |-> Append(s.completed, collision)]
            Visit(sx, flag, c) ==
                IF flag /\ ~InList(sx.completed, c)
                THEN paint_front_back(sx, c, material_color, noise, fluid)
                ELSE sx
            s1 == Visit(s0, candidate.left_occluded_calculated,   <<x - 1, y, z, level>>)
            s2 == Visit(s1, candidate.right_occluded_calculated,  <<x + 1, y, z, level>>)
            s3 == Visit(s2, candidate.top_occluded_calculated,    <<x, y + 1, z, level>>)
            s4 == Visit(s3, candidate.bottom_occluded_calculated, <<x, y - 1, z, level>>)
            s5 == Visit(s4, candidate.front_occluded_calculated,  <<x, y, z + 1, level>>)
            s6 == Visit(s5, candidate.back_occluded_calculated,   <<x, y, z - 1, level>>)
        IN  s6

\* s is [t, completed]: the tree and the completed vector, both threaded
\* through the six recursive calls in the order of the code.
paint_connected_nodes_with_completion(s, collision, material_color, noise, fluid) ==
    LET x == collision[1]
        y == collision[2]
        z == collision[3]
        level == collision[4]
        candidate_opt == find_mut_by_index(s.t, x, y, z, level)
    IN  IF candidate_opt = None THEN s
        ELSE
        LET candidate == candidate_opt[1]
            s0 == [t |-> Put(s.t, [candidate EXCEPT !.color = material_color,
                                                    !.noise = noise,
                                                    !.fluid = fluid]),
                   completed |-> Append(s.completed, collision)]
            Visit(sx, flag, c) ==
                IF flag /\ ~InList(sx.completed, c)
                THEN paint_connected_nodes_with_completion(
                         sx, c, material_color, noise, fluid)
                ELSE sx
            s1 == Visit(s0, candidate.left_occluded_calculated,   <<x - 1, y, z, level>>)
            s2 == Visit(s1, candidate.right_occluded_calculated,  <<x + 1, y, z, level>>)
            s3 == Visit(s2, candidate.top_occluded_calculated,    <<x, y + 1, z, level>>)
            s4 == Visit(s3, candidate.bottom_occluded_calculated, <<x, y - 1, z, level>>)
            s5 == Visit(s4, candidate.front_occluded_calculated,  <<x, y, z - 1, level>>)
            s6 == Visit(s5, candidate.back_occluded_calculated,   <<x, y, z + 1, level>>)
        IN  s6

paint_connected_nodes(t, collision, material_color, noise, fluid) ==
    paint_connected_nodes_with_completion(
        [t |-> t, completed |-> <<>>], collision, material_color, noise, fluid)

\* No written node lies in the box of self: the subtree of self is as built.
Pristine(t, self) ==
    \A k \in DOMAIN t.nodes :
        ~ ( /\ k[4] >= self.sub_division_level
            /\ k[1] >= self.x_index
            /\ k[1] < self.x_index + resolution(self.sub_division_level)
            /\ k[2] >= self.y_index
            /\ k[2] < self.y_index + resolution(self.sub_division_level)
            /\ k[3] >= self.z_index
            /\ k[3] < self.z_index + resolution(self.sub_division_level) )

\* A tree built deeper than MaxDepth is not walked node by node where it is
\* as built: subdivide leaves every node there inactive, and the walks below
\* collect nothing from an inactive node.
Skipped(t, self) == t.depth > MaxDepth /\ Pristine(t, self)

RECURSIVE active_nodes(_, _)
RECURSIVE ActiveInChildren(_, _, _)

ActiveInChildren(t, self, i) ==
    IF i > 8 THEN <<>>
    ELSE active_nodes(t, Cur(t, BuiltChild(t.depth, self, i)))
             \o ActiveInChildren(t, self, i + 1)

\* Ocnode::active_nodes: self if active, then the children's in order.
active_nodes(t, self) ==
    IF Skipped(t, self) THEN <<>>
    ELSE (IF self.active THEN <<self>> ELSE <<>>)
         \o (IF self.has_children THEN ActiveInChildren(t, self, 1) ELSE <<>>)

\* clear that resets no node.
clear_nothing(t) == t

\* Ocnode::clear from the root: every node inactive (the nodes as built
\* already are).
clear(t) ==
    [t EXCEPT !.nodes = [k \in DOMAIN t.nodes |->
                            [t.nodes[k] EXCEPT !.active = FALSE]]]

\* apply without the six occlusion flags.
apply_without_occlusion(t, node) ==
    LET found_opt == find_mut_by_index(t, node.x_index, node.y_index,
                                       node.z_index, node.sub_division_level)
    IN  IF found_opt # None
        THEN Put(t, [found_opt[1] EXCEPT
                !.active = node.active,
                !.color = node.color,
                !.fluid = node.fluid,
                !.noise = node.noise])
        ELSE t

\* apply that replaces the node found by the record as a whole.
apply_whole_record(t, node) ==
    LET found_opt == find_mut_by_index(t, node.x_index, node.y_index,
                                       node.z_index, node.sub_division_level)
    IN  IF found_opt # None THEN Put(t, node) ELSE t

\* Ocnode::apply
apply(t, node) ==
    LET found_opt == find_mut_by_index(t, node.x_index, node.y_index,
                                       node.z_index, node.sub_division_level)
    IN  IF found_opt # None
        THEN Put(t, [found_opt[1] EXCEPT
                !.active = node.active,
                !.color = node.color,
                !.fluid = node.fluid,
                !.noise = node.noise,
                !.back_occluded_calculated = node.back_occluded_calculated,
                !.front_occluded_calculated = node.front_occluded_calculated,
                !.top_occluded_calculated = node.top_occluded_calculated,
                !.bottom_occluded_calculated = node.bottom_occluded_calculated,
                !.left_occluded_calculated = node.left_occluded_calculated,
                !.right_occluded_calculated = node.right_occluded_calculated])
        ELSE t

\* Octree::prepare: StoredOctree { active_nodes }
prepare(t) == [active_nodes |-> active_nodes(t, Root(t))]

RECURSIVE ApplyAll(_, _)
ApplyAll(t, records) ==
    IF records = <<>> THEN t
    ELSE ApplyAll(apply(t, Head(records)), Tail(records))

\* Octree::load_from_serial
load_from_serial(t, source, camera_eye) ==
    optimize(ApplyAll(clear(t), source.active_nodes), camera_eye)

----------------------------------------------------------------------------
(* Picking: Point3<f32> coordinates are in halves (0.5 is 1), so that the
   lines below are exact both here and in f32 *)

Half == 2

\* near + t * (far - near) at the plane `plane` of the axis lies inside
\* [min_vertex, max_vertex] on the three axes. t is (plane - near[axis]) /
\* (far[axis] - near[axis]); the comparison is multiplied through by the
\* divisor. A divisor of 0 makes t infinite or NaN and the intersection NaN
\* on that axis: every comparison with it is false.
PlaneHit(min_vertex, max_vertex, near, far, axis, plane) ==
    LET d == far[axis] - near[axis]
        At(b) == near[b] * d + (plane - near[axis]) * (far[b] - near[b])
    IN  /\ d # 0
        /\ \A b \in 1..3 :
              IF d > 0
              THEN At(b) >= min_vertex[b] * d /\ At(b) <= max_vertex[b] * d
              ELSE At(b) <= min_vertex[b] * d /\ At(b) >= max_vertex[b] * d

\* Ocnode::intersects_line: the planes in the order the code tests them,
\* front, left, right, back, top, bottom; the plane z_index + 1 is not among
\* them and the last is the fourth again.
intersects_line(self, near, far) ==
    LET res == resolution(self.sub_division_level)
        min_vertex == << self.x_index * res * Half, self.y_index * res * Half,
                         self.z_index * res * Half >>
        max_vertex == << (self.x_index + 1) * res * Half,
                         (self.y_index + 1) * res * Half,
                         (self.z_index + 1) * res * Half >>
        Hit(axis, plane) ==
            PlaneHit(min_vertex, max_vertex, near, far, axis, plane * Half)
    IN  \/ Hit(3, self.z_index)
        \/ Hit(1, self.x_index)
        \/ Hit(1, self.x_index + 1)
        \/ Hit(2, self.y_index)
        \/ Hit(2, self.y_index + 1)
        \/ Hit(2, self.y_index)

\* Ocnode::distance_to, times Half squared.
distance_to(self, point) ==
    (point[1] - self.x_index * Half) ^ 2
        + (point[2] - self.y_index * Half) ^ 2
        + (point[3] - self.z_index * Half) ^ 2

\* The active nodes the line meets, in the order of the walk.
Hits(t, near, far) ==
    SelectSeq(active_nodes(t, Root(t)),
              LAMBDA node : intersects_line(node, near, far))

\* find_first_collision without the sort: the first hit of the walk.
find_first_collision_unsorted(t, near, far) ==
    LET hits == Hits(t, near, far)
    IN  IF Len(hits) > 0
        THEN Some(<<hits[1].x_index, hits[1].y_index, hits[1].z_index,
                    hits[1].sub_division_level>>)
        ELSE None

\* Ocnode::find_first_collision. sort_unstable_by is deterministic; of hits
\* at the same distance the first of the walk is taken here (on the lines
\* the operations are driven with no two hits are at the same distance).
find_first_collision(t, near, far) ==
    LET hits == Hits(t, near, far)
        first == CHOOSE i \in DOMAIN hits :
                    /\ \A j \in DOMAIN hits :
                          distance_to(hits[i], near) <= distance_to(hits[j], near)
                    /\ \A j \in 1..(i - 1) :
                          distance_to(hits[j], near) > distance_to(hits[i], near)
    IN  IF Len(hits) > 0
        THEN Some(<<hits[first].x_index, hits[first].y_index,
                    hits[first].z_index, hits[first].sub_division_level>>)
        ELSE None

\* Octree::paint_first_collision
paint_first_collision(t, near, far, material_color, noise, fluid) ==
    LET collision_opt == find_first_collision(t, near, far)
    IN  IF collision_opt # None
        THEN paint_connected_nodes(t, collision_opt[1], material_color,
                                   noise, fluid).t
        ELSE t

----------------------------------------------------------------------------
(* Scene: the selection *)

\* Scene::calculate_distance_squared
calculate_distance_squared(from, to) ==
    (from[1] - to[1]) ^ 2 + (from[2] - to[2]) ^ 2 + (from[3] - to[3]) ^ 2

Abs(i) == IF i < 0 THEN -i ELSE i

Max(a, b) == IF a > b THEN a ELSE b

Min(a, b) == IF a < b THEN a ELSE b

\* Scene::selection_voxels for the shapes Sphere, Cube and SquareXZ: x, y
\* and z run over xmin..xmax, ymin..ymax and zmin..zmax (upper bounds
\* excluded), z fastest; SquareXZ has no loop over y and stays at the
\* centre's.
selection_voxels(center, radius, shape) ==
    LET selection_range == range * 2
        radius_squared == radius ^ 2
        xmin == Max(center[1] - radius - 1, -selection_range)
        xmax == Min(center[1] + radius + 1, selection_range)
        ymin == Max(center[2] - radius - 1, -selection_range)
        ymax == Min(center[2] + radius + 1, selection_range)
        zmin == Max(center[3] - radius - 1, -selection_range)
        zmax == Min(center[3] + radius + 1, selection_range)
        ny == ymax - ymin
        nz == zmax - zmin
        all == IF shape = "SquareXZ"
               THEN [i \in 1..((xmax - xmin) * nz) |->
                       << xmin + (i - 1) \div nz,
                          center[2],
                          zmin + ((i - 1) % nz) >>]
               ELSE [i \in 1..((xmax - xmin) * ny * nz) |->
                       << xmin + (i - 1) \div (ny * nz),
                          ymin + (((i - 1) \div nz) % ny),
                          zmin + ((i - 1) % nz) >>]
        Selected(voxel_position) ==
            IF shape = "Sphere"
            THEN calculate_distance_squared(center, voxel_position)
                     < radius_squared
            ELSE IF shape = "Cube"
            THEN /\ Abs(center[1] - voxel_position[1]) < radius
                 /\ Abs(center[2] - voxel_position[2]) < radius
                 /\ Abs(center[3] - voxel_position[3]) < radius
            ELSE /\ Abs(center[1] - voxel_position[1]) < radius
                 /\ Abs(center[3] - voxel_position[3]) < radius
    IN  SelectSeq(all, Selected)

----------------------------------------------------------------------------
(* Cube: lengths are in 1/10000 of a unit (center 0.5 is 5000) *)

Unit == 10000

\* Cube::new(), the fields drawables and vertices read.
CubeNew ==
    [ translation |-> <<0, 0, 0>>,
      color |-> <<3, 3, 1, 10>>,
      scale |-> 9999, center |-> 5000, floor |-> 1,
      fluid |-> 0, noise |-> 0,
      bottom_occluded |-> FALSE, left_occluded |-> FALSE,
      right_occluded |-> FALSE, front_occluded |-> FALSE,
      back_occluded |-> FALSE, top_occluded |-> FALSE,
      smooth |-> FALSE ]

\* CubeOf without cube.translate.
CubeOf_untranslated(self, scale) ==
    [ CubeNew EXCEPT
        !.color = self.color,
        !.fluid = self.fluid,
        !.noise = self.noise,
        !.scale = scale * Unit,
        !.smooth = TRUE,
        !.bottom_occluded = self.bottom_occluded_calculated,
        !.left_occluded = self.left_occluded_calculated,
        !.right_occluded = self.right_occluded_calculated,
        !.front_occluded = self.front_occluded_calculated,
        !.back_occluded = self.back_occluded_calculated,
        !.top_occluded = self.top_occluded_calculated ]

\* The cube both branches of Ocnode::drawables build for an active node
\* (init() only draws the random key, which nothing here reads).
CubeOf(self, scale) ==
    [ CubeNew EXCEPT
        !.color = self.color,
        !.fluid = self.fluid,
        !.noise = self.noise,
        !.scale = scale * Unit,
        !.smooth = TRUE,
        !.bottom_occluded = self.bottom_occluded_calculated,
        !.left_occluded = self.left_occluded_calculated,
        !.right_occluded = self.right_occluded_calculated,
        !.front_occluded = self.front_occluded_calculated,
        !.back_occluded = self.back_occluded_calculated,
        !.top_occluded = self.top_occluded_calculated,
        !.translation = <<self.x_index, self.y_index, self.z_index>> ]

RECURSIVE drawables(_, _)
RECURSIVE DrawablesOfChildren(_, _, _)

DrawablesOfChildren(t, self, i) ==
    IF i > 8 THEN <<>>
    ELSE drawables(t, Cur(t, BuiltChild(t.depth, self, i)))
             \o DrawablesOfChildren(t, self, i + 1)

\* Ocnode::drawables
drawables(t, self) ==
    IF Skipped(t, self) THEN <<>>
    ELSE IF self.has_children
         THEN IF self.active
              THEN << CubeOf(self, resolution(self.sub_division_level)) >>
              ELSE DrawablesOfChildren(t, self, 1)
         ELSE IF self.active THEN << CubeOf(self, 1) >> ELSE <<>>

\* bulge = 0.6
Low(c) == c.center - (c.center * 6) \div 10

High(c) == c.center + (c.center * 6) \div 10

\* The six face centres and the eight corners of Cube::vertices; the names
\* are l/r (-x/+x), d/u (-y/+y), f/b (-z/+z).
Pt_lc(c) ==
    << IF c.smooth /\ ~c.front_occluded /\ ~c.bottom_occluded /\ ~c.left_occluded
          /\ ~c.back_occluded /\ ~c.top_occluded THEN Low(c) ELSE c.floor,
       c.center, c.center >>

Pt_rc(c) ==
    << IF c.smooth /\ ~c.front_occluded /\ ~c.bottom_occluded /\ ~c.right_occluded
          /\ ~c.back_occluded /\ ~c.top_occluded THEN High(c) ELSE c.scale,
       c.center, c.center >>

Pt_fc(c) ==
    << c.center, c.center,
       IF c.smooth /\ ~c.front_occluded /\ ~c.bottom_occluded /\ ~c.right_occluded
          /\ ~c.left_occluded /\ ~c.top_occluded THEN Low(c) ELSE c.floor >>

Pt_bc(c) ==
    << c.center, c.center,
       IF c.smooth /\ ~c.back_occluded /\ ~c.bottom_occluded /\ ~c.right_occluded
          /\ ~c.left_occluded /\ ~c.top_occluded THEN High(c) ELSE c.scale >>

Pt_dc(c) ==
    << c.center,
       IF c.smooth /\ ~c.back_occluded /\ ~c.bottom_occluded /\ ~c.right_occluded
          /\ ~c.left_occluded /\ ~c.front_occluded THEN Low(c) ELSE c.floor,
       c.center >>

Pt_uc(c) ==
    << c.center,
       IF c.smooth /\ ~c.back_occluded /\ ~c.top_occluded /\ ~c.right_occluded
          /\ ~c.left_occluded /\ ~c.front_occluded THEN High(c) ELSE c.scale,
       c.center >>

\* A corner: bulged on all three axes when smooth and its three faces are
\* unoccluded, on the flat cube otherwise; hx, hy, hz say which end of each
\* axis the corner is at.
Corner(c, bulged, hx, hy, hz) ==
    << IF hx THEN (IF bulged THEN High(c) ELSE c.scale)
             ELSE (IF bulged THEN Low(c) ELSE c.floor),
       IF hy THEN (IF bulged THEN High(c) ELSE c.scale)
             ELSE (IF bulged THEN Low(c) ELSE c.floor),
       IF hz THEN (IF bulged THEN High(c) ELSE c.scale)
             ELSE (IF bulged THEN Low(c) ELSE c.floor) >>

Pt_ldf(c) ==
    Corner(c, c.smooth /\ ~c.front_occluded /\ ~c.bottom_occluded /\ ~c.left_occluded,
           FALSE, FALSE, FALSE)

Pt_luf(c) ==
    Corner(c, c.smooth /\ ~c.front_occluded /\ ~c.top_occluded /\ ~c.left_occluded,
           FALSE, TRUE, FALSE)

Pt_ldb(c) ==
    Corner(c, c.smooth /\ ~c.back_occluded /\ ~c.bottom_occluded /\ ~c.left_occluded,
           FALSE, FALSE, TRUE)

Pt_lub(c) ==
    Corner(c, c.smooth /\ ~c.back_occluded /\ ~c.top_occluded /\ ~c.left_occluded,
           FALSE, TRUE, TRUE)

Pt_rdf(c) ==
    Corner(c, c.smooth /\ ~c.front_occluded /\ ~c.bottom_occluded /\ ~c.right_occluded,
           TRUE, FALSE, FALSE)

Pt_ruf(c) ==
    Corner(c, c.smooth /\ ~c.front_occluded /\ ~c.top_occluded /\ ~c.right_occluded,
           TRUE, TRUE, FALSE)

Pt_rdb(c) ==
    Corner(c, c.smooth /\ ~c.back_occluded /\ ~c.bottom_occluded /\ ~c.right_occluded,
           TRUE, FALSE, TRUE)

Pt_rub(c) ==
    Corner(c, c.smooth /\ ~c.back_occluded /\ ~c.top_occluded /\ ~c.right_occluded,
           TRUE, TRUE, TRUE)

\* Vec3::new(a - m).cross(&Vec3::new(b - m))
CrossAt(a, b, m) ==
    LET u == << a[1] - m[1], a[2] - m[2], a[3] - m[3] >>
        v == << b[1] - m[1], b[2] - m[2], b[3] - m[3] >>
    IN  << u[2] * v[3] - u[3] * v[2],
           u[3] * v[1] - u[1] * v[3],
           u[1] * v[2] - u[2] * v[1] >>

\* Three vertices at p, q and the face centre m, all with the normal
\* (na - m) x (nb - m).
Triangle(p, q, m, na, nb) ==
    LET n == CrossAt(na, nb, m)
    IN  << [position |-> p, normal |-> n],
           [position |-> q, normal |-> n],
           [position |-> m, normal |-> n] >>

\* vertices[0..12]
BottomFace(c) ==
    Triangle(Pt_ldf(c), Pt_rdf(c), Pt_dc(c), Pt_ldf(c), Pt_rdf(c))
    \o Triangle(Pt_rdf(c), Pt_rdb(c), Pt_dc(c), Pt_rdf(c), Pt_rdb(c))
    \o Triangle(Pt_rdb(c), Pt_ldb(c), Pt_dc(c), Pt_rdb(c), Pt_ldb(c))
    \o Triangle(Pt_ldb(c), Pt_ldf(c), Pt_dc(c), Pt_ldb(c), Pt_ldf(c))

\* vertices[12..24]
LeftFace(c) ==
    Triangle(Pt_ldf(c), Pt_ldb(c), Pt_lc(c), Pt_ldf(c), Pt_ldb(c))
    \o Triangle(Pt_luf(c), Pt_ldf(c), Pt_lc(c), Pt_luf(c), Pt_ldf(c))
    \o Triangle(Pt_lub(c), Pt_luf(c), Pt_lc(c), Pt_lub(c), Pt_luf(c))
    \o Triangle(Pt_ldb(c), Pt_lub(c), Pt_lc(c), Pt_ldb(c), Pt_lub(c))

\* vertices[24..36]
RightFace(c) ==
    Triangle(Pt_rdf(c), Pt_ruf(c), Pt_rc(c), Pt_rdf(c), Pt_ruf(c))
    \o Triangle(Pt_ruf(c), Pt_rub(c), Pt_rc(c), Pt_ruf(c), Pt_rub(c))
    \o Triangle(Pt_rub(c), Pt_rdb(c), Pt_rc(c), Pt_rub(c), Pt_rdb(c))
    \o Triangle(Pt_rdb(c), Pt_rdf(c), Pt_rc(c), Pt_rdb(c), Pt_rdf(c))

\* vertices[36..48]; the first triangle is (ldb, rdb, bc) with the normal of
\* (rdb, rub, bc).
BackFace(c) ==
    Triangle(Pt_ldb(c), Pt_rdb(c), Pt_bc(c), Pt_rdb(c), Pt_rub(c))
    \o Triangle(Pt_rdb(c), Pt_rub(c), Pt_bc(c), Pt_rdb(c), Pt_rub(c))
    \o Triangle(Pt_rub(c), Pt_lub(c), Pt_bc(c), Pt_rub(c), Pt_lub(c))
    \o Triangle(Pt_lub(c), Pt_ldb(c), Pt_bc(c), Pt_lub(c), Pt_ldb(c))

\* vertices[48..60]
FrontFace(c) ==
    Triangle(Pt_ldf(c), Pt_luf(c), Pt_fc(c), Pt_ldf(c), Pt_luf(c))
    \o Triangle(Pt_luf(c), Pt_ruf(c), Pt_fc(c), Pt_luf(c), Pt_ruf(c))
    \o Triangle(Pt_ruf(c), Pt_rdf(c), Pt_fc(c), Pt_ruf(c), Pt_rdf(c))
    \o Triangle(Pt_rdf(c), Pt_ldf(c), Pt_fc(c), Pt_rdf(c), Pt_ldf(c))

\* vertices[60..72]
TopFace(c) ==
    Triangle(Pt_luf(c), Pt_lub(c), Pt_uc(c), Pt_luf(c), Pt_lub(c))
    \o Triangle(Pt_lub(c), Pt_rub(c), Pt_uc(c), Pt_lub(c), Pt_rub(c))
    \o Triangle(Pt_rub(c), Pt_ruf(c), Pt_uc(c), Pt_rub(c), Pt_ruf(c))
    \o Triangle(Pt_ruf(c), Pt_luf(c), Pt_uc(c), Pt_ruf(c), Pt_luf(c))

\* vertices with the front flag deciding the back slice and the back flag
\* the front slice.
vertices_front_back(c) ==
    (IF ~c.bottom_occluded THEN BottomFace(c) ELSE <<>>)
    \o (IF ~c.left_occluded THEN LeftFace(c) ELSE <<>>)
    \o (IF ~c.right_occluded THEN RightFace(c) ELSE <<>>)
    \o (IF ~c.front_occluded THEN BackFace(c) ELSE <<>>)
    \o (IF ~c.back_occluded THEN FrontFace(c) ELSE <<>>)
    \o (IF ~c.top_occluded THEN TopFace(c) ELSE <<>>)

\* Cube::vertices: the slices of the faces that are not occluded, in the
\* order of the extend_from_slice calls.
vertices(c) ==
    (IF ~c.bottom_occluded THEN BottomFace(c) ELSE <<>>)
    \o (IF ~c.left_occluded THEN LeftFace(c) ELSE <<>>)
    \o (IF ~c.right_occluded THEN RightFace(c) ELSE <<>>)
    \o (IF ~c.front_occluded THEN FrontFace(c) ELSE <<>>)
    \o (IF ~c.back_occluded THEN BackFace(c) ELSE <<>>)
    \o (IF ~c.top_occluded THEN TopFace(c) ELSE <<>>)

----------------------------------------------------------------------------
(* Scene: the caches Scene::draw keeps *)

\* Material::downscale_color, (color * 255.0) as i32, of a colour in tenths.
downscale_color(color) == (color * 255) \div 10

\* Material::new as Scene::draw calls it: the key of the render cache.
MaterialNew(color, noise, fluid) ==
    [ color |-> [i \in 1..4 |-> downscale_color(color[i])],
      noise |-> noise, fluid |-> fluid ]

\* Cube::vertices_world: the vertices moved by the translation; the
\* rotation of a cube of drawables is zero.
vertices_world(c) ==
    LET v == vertices(c)
    IN  [i \in DOMAIN v |->
            [ position |-> << v[i].position[1] + c.translation[1] * Unit,
                              v[i].position[2] + c.translation[2] * Unit,
                              v[i].position[3] + c.translation[3] * Unit >>,
              normal |-> v[i].normal ]]

\* render_cache.entry(material).or_insert_with(Vec::new).extend(vertices)
Extended(render_cache, material, vertices_of_cube) ==
    [k \in DOMAIN render_cache \cup {material} |->
        IF k = material
        THEN (IF material \in DOMAIN render_cache
              THEN render_cache[material] ELSE <<>>) \o vertices_of_cube
        ELSE render_cache[k]]

RECURSIVE RebuildMaterials(_, _, _, _)
\* The loop of Scene::draw over drawables_cache from cube i on.
RebuildMaterials(render_cache, drawables_cache, i, invalidate_render_material) ==
    IF i > Len(drawables_cache) THEN render_cache
    ELSE LET voxel == drawables_cache[i]
             material == MaterialNew(voxel.color, voxel.noise, voxel.fluid)
             next == IF \/ invalidate_render_material = None
                        \/ invalidate_render_material = Some(material)
                     THEN Extended(render_cache, material, vertices_world(voxel))
                     ELSE render_cache
         IN  RebuildMaterials(next, drawables_cache, i + 1,
                              invalidate_render_material)

\* The render cache empty: HashMap::new(), and after clear().
NoMaterials == [k \in {} |-> <<>>]

\* Scene::draw, the part that rebuilds the caches, on the fields s of the
\* Scene and the tree t.
draw(s, t) ==
    IF \/ s.invalidate_render_cache
       \/ s.invalidate_selection_render_cache
       \/ s.invalidate_render_material # None
    THEN LET cleared == IF s.invalidate_render_cache THEN NoMaterials
                        ELSE s.render_cache
             drawables_cache == IF s.invalidate_drawables_cache
                                THEN drawables(t, Root(t))
                                ELSE s.drawables_cache
         IN  [ drawables_cache |-> drawables_cache,
               invalidate_drawables_cache |-> FALSE,
               render_cache |-> RebuildMaterials(cleared, drawables_cache, 1,
                                    s.invalidate_render_material),
               invalidate_render_cache |-> FALSE,
               invalidate_render_material |-> None,
               invalidate_selection_render_cache |-> FALSE ]
    ELSE s

\* The cache fields after Scene::new() and Scene::init().
SceneCaches ==
    [ drawables_cache |-> <<>>,
      invalidate_drawables_cache |-> FALSE,
      render_cache |-> NoMaterials,
      invalidate_render_cache |-> TRUE,
      invalidate_render_material |-> None,
      invalidate_selection_render_cache |-> FALSE ]

----------------------------------------------------------------------------
(* The state machine *)

VARIABLES
    voxels,   \* Model.voxels: the Octree [depth, nodes]
    pc,       \* "new" after Octree::new(), "built" after init()/decimate()
    ops,      \* edits made so far
    last,     \* the operation that led to this state, with its arguments
    out,      \* what that operation returned
    scene     \* the caches of the Scene and the flags that invalidate them

vars == <<voxels, pc, ops, last, out, scene>>

NoOut == <<>>

CameraEye == <<0, 0, 0>>

\* Octree::new()
Init ==
    /\ voxels = [depth |-> 1, nodes |-> <<>>]
    /\ pc = "new"
    /\ ops = 0
    /\ last = [op |-> "new"]
    /\ out = NoOut
    /\ scene = SceneCaches

\* Octree::decimate(d); Octree::init() is decimate(LEVELS). A build that
\* panics returns no tree: no operation follows it.
Decimate(d) ==
    /\ pc = "new"
    /\ IF decimate_panics(1, d)
       THEN pc' = "panicked" /\ UNCHANGED voxels
       ELSE /\ pc' = "built"
            /\ voxels' = [voxels EXCEPT !.depth = decimate_depth(1, d)]
    /\ last' = [op |-> "decimate", depth |-> d]
    /\ UNCHANGED <<ops, out>>
    /\ UNCHANGED scene

\* Octree::toggle_voxels
ToggleVoxels(positions, value, m) ==
    /\ pc = "built"
    /\ ops < MaxOps
    /\ voxels' = optimize(toggle_voxels(voxels, positions, value, m.color,
                                        m.fluid, m.noise), CameraEye)
    /\ ops' = ops + 1
    /\ last' = [op |-> "toggle_voxels", positions |-> positions,
                value |-> value, material |-> m]
    /\ out' = NoOut
    /\ UNCHANGED pc
    /\ UNCHANGED scene

\* Octree::recalculate_occlusion
RecalculateOcclusion ==
    /\ pc = "built"
    /\ voxels' = recalculate_occlusion(voxels)
    /\ last' = [op |-> "recalculate_occlusion"]
    /\ out' = NoOut
    /\ UNCHANGED <<pc, ops>>
    /\ UNCHANGED scene

\* Octree::recalculate_occlusion_for_selections, called as
\* Scene::handle_toggle_voxel calls it: after toggle_voxels, with the
\* positions that were toggled.
RecalculateOcclusionForSelections(selections) ==
    /\ pc = "built"
    /\ last.op = "toggle_voxels"
    /\ last.positions = selections
    /\ voxels' = recalculate_occlusion_for_selections(voxels, selections)
    /\ last' = [op |-> "recalculate_occlusion_for_selections",
                selections |-> selections]
    /\ out' = NoOut
    /\ UNCHANGED <<pc, ops>>
    /\ UNCHANGED scene

\* Ocnode::paint_connected_nodes on the root; `last` keeps the tree as it
\* was before the call and whether the call follows a full
\* recalculate_occlusion, `out` the completed vector.
PaintConnectedNodes(collision, m) ==
    /\ pc = "built"
    /\ ops < MaxOps
    /\ LET s == paint_connected_nodes(voxels, collision, m.color, m.noise, m.fluid)
       IN  /\ voxels' = s.t
           /\ out' = s.completed
    /\ ops' = ops + 1
    /\ last' = [op |-> "paint_connected_nodes", collision |-> collision,
                material |-> m, before |-> voxels,
                recalculated |-> (last.op = "recalculate_occlusion")]
    /\ UNCHANGED pc
    /\ UNCHANGED scene

\* Octree::drawables
Drawables ==
    /\ pc = "built"
    /\ out' = drawables(voxels, Root(voxels))
    /\ last' = [op |-> "drawables"]
    /\ UNCHANGED <<voxels, pc, ops>>
    /\ UNCHANGED scene

\* Octree::prepare, then Octree::load_from_serial of what it returned into a
\* tree newly built to the same depth; `out` is that second tree.
PrepareAndLoad ==
    /\ pc = "built"
    /\ out' = load_from_serial([depth |-> voxels.depth, nodes |-> <<>>],
                               prepare(voxels), CameraEye)
    /\ last' = [op |-> "prepare_and_load"]
    /\ UNCHANGED <<voxels, pc, ops>>
    /\ UNCHANGED scene

Next ==
    \/ \E d \in BuildDepths \cup FatalDepths : Decimate(d)
    \/ \E positions \in Selections, mode \in ToggleModes :
          ToggleVoxels(positions, mode[1], mode[2])
    \/ RecalculateOcclusion
    \/ \E selections \in Selections :
          RecalculateOcclusionForSelections(selections)
    \/ \E collision \in Collisions, m \in PaintMaterials :
          PaintConnectedNodes(collision, m)
    \/ Drawables
    \/ PrepareAndLoad

Spec == Init /\ [][Next]_vars

----------------------------------------------------------------------------
(* Storage: the tree under load_from_serial of any StoredOctree *)

\* How many toggles, paints and loads a behaviour of StoreSpec makes.
MaxStoreOps == 2

\* A record of a StoredOctree: an Ocnode as serde reads it, every field
\* but the children.
Record(x, y, z, level, active, has_children, m) ==
    [ new EXCEPT
        !.x_index = x, !.y_index = y, !.z_index = z,
        !.sub_division_level = level,
        !.active = active,
        !.has_children = has_children,
        !.color = m.color, !.fluid = m.fluid, !.noise = m.noise ]

RedMaterial == [color |-> Red, fluid |-> 0, noise |-> 0]

GreenMaterial == [color |-> Green, fluid |-> 0, noise |-> 0]

\* The StoredOctrees load_from_serial is given. The first holds two records
\* of the origin, an inactive one then an active one, and its neighbour on
\* x, the two with the flags towards each other set and the origin with the
\* flag towards an inactive leaf set; the second a node of level 2, a branch of a tree built by
\* init(), and a leaf inside it; the third the origin active, then three
\* records no node of a tree built by init() has the coordinate of (outside
\* the tree, below the finest level, off the grid of its level), then the
\* origin inactive and marked as a branch; the fourth nothing.
StoredOctrees ==
    { [active_nodes |->
         << Record(0, 0, 0, LEVELS, FALSE, FALSE, GreenMaterial),
            [Record(0, 0, 0, LEVELS, TRUE, FALSE, RedMaterial)
                EXCEPT !.top_occluded_calculated = TRUE,
                       !.right_occluded_calculated = TRUE],
            [Record(1, 0, 0, LEVELS, TRUE, FALSE, GreenMaterial)
                EXCEPT !.left_occluded_calculated = TRUE] >>],
      [active_nodes |->
         << Record(0, 0, 0, 2, TRUE, TRUE, RedMaterial),
            Record(0, 1, 0, LEVELS, TRUE, FALSE, GreenMaterial) >>],
      [active_nodes |->
         << Record(0, 0, 0, LEVELS, TRUE, FALSE, RedMaterial),
            Record(range, 0, 0, LEVELS, TRUE, FALSE, RedMaterial),
            Record(0, 0, 0, OctreeLEVELS, TRUE, FALSE, RedMaterial),
            Record(1, 0, 0, 2, TRUE, TRUE, RedMaterial),
            Record(0, 0, 0, LEVELS, FALSE, TRUE, GreenMaterial) >>],
      [active_nodes |-> <<>>] }

\* The position lists all_voxels_active is asked about.
QueryLists == Selections \cup { <<>> }

\* Octree::load_from_serial; `last` keeps the tree as it was before the
\* call, `out` is what the call returns: nothing.
LoadFromSerial(source) ==
    /\ pc = "built"
    /\ voxels' = load_from_serial(voxels, source, CameraEye)
    /\ ops' = ops + 1
    /\ last' = [op |-> "load_from_serial", source |-> source,
                before |-> voxels]
    /\ out' = NoOut
    /\ UNCHANGED pc
    /\ UNCHANGED scene

\* The camera positions optimize is called with: the origin, and one beyond
\* the distance the commented-out body switches detail at.
CameraEyes == { CameraEye, <<0, 0, 1000>> }

\* Octree::optimize, as the camera-move handlers call it.
Optimize(camera_eye) ==
    /\ pc = "built"
    /\ voxels' = optimize(voxels, camera_eye)
    /\ last' = [op |-> "optimize", camera_eye |-> camera_eye]
    /\ out' = NoOut
    /\ UNCHANGED <<pc, ops>>
    /\ UNCHANGED scene

\* Octree::prepare
Prepare ==
    /\ pc = "built"
    /\ out' = prepare(voxels)
    /\ last' = [op |-> "prepare"]
    /\ UNCHANGED <<voxels, pc, ops>>
    /\ UNCHANGED scene

\* Octree::all_voxels_active
AllVoxelsActive(positions) ==
    /\ pc = "built"
    /\ out' = all_voxels_active(voxels, positions)
    /\ last' = [op |-> "all_voxels_active", positions |-> positions]
    /\ UNCHANGED <<voxels, pc, ops>>
    /\ UNCHANGED scene

StoreNext ==
    \/ \E d \in BuildDepths \cup FatalDepths : Decimate(d)
    \/ \E positions \in Selections, mode \in ToggleModes :
          ops < MaxStoreOps /\ ToggleVoxels(positions, mode[1], mode[2])
    \/ RecalculateOcclusion
    \/ \E selections \in Selections :
          RecalculateOcclusionForSelections(selections)
    \/ \E collision \in Collisions, m \in PaintMaterials :
          ops < MaxStoreOps /\ PaintConnectedNodes(collision, m)
    \/ \E source \in StoredOctrees :
          ops < MaxStoreOps /\ LoadFromSerial(source)
    \/ Drawables
    \/ Prepare
    \/ \E positions \in QueryLists : AllVoxelsActive(positions)
    \/ \E camera_eye \in CameraEyes : Optimize(camera_eye)

StoreSpec == Init /\ [][StoreNext]_vars

----------------------------------------------------------------------------
(* Scene: the editor's handlers on the tree init() builds *)

\* How many toggles and clicks a behaviour of SceneSpec makes.
MaxSceneOps == 5

\* (selection_position, selection_radius, selection_shape) at the time of a
\* toggle: the handlers that move the selection, change its radius and its
\* shape only set these fields. The origin, its neighbours on x and z, and
\* a position outside the tree, with the radius Scene::new() sets.
SceneSelections ==
    { << <<0, 0, 0>>, 1, "Sphere" >>,
      << <<1, 0, 0>>, 1, "Sphere" >>,
      << <<0, 0, 1>>, 1, "Cube" >>,
      << <<range, 0, 0>>, 1, "Sphere" >> }

\* (material_color, fluid, noise) at the time of a toggle or a click.
SceneMaterials == { RedMaterial, GreenMaterial }

\* The (near, far) Scene::unproject gives a click, in halves: along x
\* through the centres of the leaves (.., 0, 0); along z through the centres
\* of the leaves (0, 0, ..); the diagonal x = y at z = 0.5, through the
\* origin's leaf and the corners of its neighbours; along x away from the
\* origin, which lies behind near; a line that meets no leaf of the
\* selections.
Rays ==
    { << <<-8, 1, 1>>, <<8, 1, 1>> >>,
      << <<1, 1, -8>>, <<1, 1, 8>> >>,
      << <<-4, -4, 1>>, <<4, 4, 1>> >>,
      << <<8, 1, 1>>, <<16, 1, 1>> >>,
      << <<21, 21, -8>>, <<21, 21, 8>> >> }

\* f32::clamp(0.0, 1.0) of each component, in tenths.
Clamped(color) == [i \in DOMAIN color |-> Max(0, Min(10, color[i]))]

\* Scene::new() and Model::init(): the tree decimate(LEVELS) builds.
SceneInit ==
    /\ voxels = [depth |-> decimate_depth(1, LEVELS), nodes |-> <<>>]
    /\ pc = "built"
    /\ ops = 0
    /\ last = [op |-> "init"]
    /\ out = NoOut
    /\ scene = SceneCaches

\* Scene::handle_toggle_voxel: all_voxels_active, toggle_voxels with its
\* negation, recalculate_occlusion_for_selections. `last` keeps the tree as it
\* was before the call.
HandleToggleVoxel(selection, m) ==
    /\ pc = "built"
    /\ ops < MaxSceneOps
    /\ LET selections == selection_voxels(selection[1], selection[2],
                                          selection[3])
           value == all_voxels_active(voxels, selections)
           toggled == optimize(toggle_voxels(voxels, selections, ~value,
                                   Clamped(m.color), m.fluid, m.noise),
                               CameraEye)
       IN  /\ voxels' = recalculate_occlusion_for_selections(toggled,
                                                             selections)
           /\ last' = [op |-> "handle_toggle_voxel",
                       selections |-> selections, value |-> ~value,
                       material |-> m, before |-> voxels]
    /\ ops' = ops + 1
    /\ out' = NoOut
    /\ UNCHANGED pc
    /\ scene' = [scene EXCEPT !.invalidate_drawables_cache = TRUE,
                              !.invalidate_render_cache = TRUE]

\* Scene::handle_mouse_click above the tool bar, unproject giving (near,
\* far): paint_first_collision, then recalculate_occlusion.
HandleMouseClick(ray, m) ==
    /\ pc = "built"
    /\ ops < MaxSceneOps
    /\ voxels' = recalculate_occlusion(
                     paint_first_collision(voxels, ray[1], ray[2], m.color,
                                           m.noise, m.fluid))
    /\ ops' = ops + 1
    /\ last' = [op |-> "handle_mouse_click", ray |-> ray, material |-> m]
    /\ out' = NoOut
    /\ UNCHANGED pc
    /\ scene' = [scene EXCEPT !.invalidate_drawables_cache = TRUE,
                              !.invalidate_render_cache = TRUE]

\* Ocnode::find_first_collision on the root
FindFirstCollision(ray) ==
    /\ pc = "built"
    /\ out' = find_first_collision(voxels, ray[1], ray[2])
    /\ last' = [op |-> "find_first_collision", ray |-> ray]
    /\ UNCHANGED <<voxels, pc, ops>>
    /\ UNCHANGED scene

SceneNext ==
    \/ \E selection \in SceneSelections, m \in SceneMaterials :
          HandleToggleVoxel(selection, m)
    \/ \E ray \in Rays, m \in SceneMaterials : HandleMouseClick(ray, m)
    \/ \E ray \in Rays : FindFirstCollision(ray)

SceneSpec == SceneInit /\ [][SceneNext]_vars

----------------------------------------------------------------------------
(* Scene: toggles of selections of more than one voxel *)

\* How many toggles a behaviour of SelectionSpec makes.
MaxSelectionOps == 3

\* The selections of SceneSelections, the last voxel on x, and a square of
\* radius 2 around it: nine voxels, three of them outside the tree.
WideSelections ==
    SceneSelections \cup
        { << <<range - 1, 0, 0>>, 1, "Sphere" >>,
          << <<range - 1, 0, 0>>, 2, "SquareXZ" >> }

SelectionNext ==
    \E selection \in WideSelections, m \in SceneMaterials :
        ops < MaxSelectionOps /\ HandleToggleVoxel(selection, m)

SelectionSpec == SceneInit /\ [][SelectionNext]_vars

----------------------------------------------------------------------------
(* The vocabulary of the properties *)

Directions == {"left", "right", "bottom", "top", "front", "back"}

\* l/r is -x/+x, bottom/top is -y/+y, front/back is -z/+z
Step(dir) ==
    CASE dir = "left"   -> <<-1, 0, 0>>
      [] dir = "right"  -> <<1, 0, 0>>
      [] dir = "bottom" -> <<0, -1, 0>>
      [] dir = "top"    -> <<0, 1, 0>>
      [] dir = "front"  -> <<0, 0, -1>>
      [] dir = "back"   -> <<0, 0, 1>>

Opposite(dir) ==
    CASE dir = "left"   -> "right"
      [] dir = "right"  -> "left"
      [] dir = "bottom" -> "top"
      [] dir = "top"    -> "bottom"
      [] dir = "front"  -> "back"
      [] dir = "back"   -> "front"

\* The cached occlusion flag of node n toward dir.
Flag(n, dir) ==
    CASE dir = "left"   -> n.left_occluded_calculated
      [] dir = "right"  -> n.right_occluded_calculated
      [] dir = "bottom" -> n.bottom_occluded_calculated
      [] dir = "top"    -> n.top_occluded_calculated
      [] dir = "front"  -> n.front_occluded_calculated
      [] dir = "back"   -> n.back_occluded_calculated

\* The active leaves of tree t.  A node is active only once an operation
\* wrote to it.
ActiveLeaves(t) ==
    { t.nodes[k] : k \in { j \in DOMAIN t.nodes :
                              t.nodes[j].active /\ ~t.nodes[j].has_children } }

\* The edge of a node of this level, in finest-level voxels.
Edge(level) == 2 ^ (LEVELS - level)

\* Where the same-level neighbour of n toward dir is.
NeighbourKey(n, dir) ==
    << n.x_index + Step(dir)[1] * Edge(n.sub_division_level),
       n.y_index + Step(dir)[2] * Edge(n.sub_division_level),
       n.z_index + Step(dir)[3] * Edge(n.sub_division_level),
       n.sub_division_level >>

\* The coordinate is in [-R, R) on every axis.
InWorld(c) == \A i \in 1..3 : c[i] >= -range /\ c[i] < range

SameMaterial(a, b) == a.color = b.color /\ a.fluid = b.fluid /\ a.noise = b.noise

\* The neighbour of n toward dir exists, is active and is uniform with n.
Occluding(t, n, dir) ==
    LET k == NeighbourKey(n, dir)
    IN  /\ k \in DOMAIN t.nodes
        /\ t.nodes[k].active
        /\ SameMaterial(n, t.nodes[k])

----------------------------------------------------------------------------
(* C1 *)

\* C1: immediately after a full recalculate_occlusion, for every active leaf
\* and each of the six directions, the cached flag is true if and only if
\* the same-level node one resolution step away in that direction exists,
\* is active and has the same colour, fluid and noise; where that node
\* would lie outside the world the flag is false.
C1_OcclusionRule ==
    last.op = "recalculate_occlusion" =>
        \A n \in ActiveLeaves(voxels) : \A dir \in Directions :
            /\ Flag(n, dir) <=> Occluding(voxels, n, dir)
            /\ ~InWorld(NeighbourKey(n, dir)) => ~Flag(n, dir)

\* A recalculated tree with an occluded face, a face on the world boundary,
\* and a face whose neighbour is active but of another material.
C1_Witness ==
    /\ last.op = "recalculate_occlusion"
    /\ \E n \in ActiveLeaves(voxels), dir \in Directions : Flag(n, dir)
    /\ \E n \in ActiveLeaves(voxels), dir \in Directions :
          ~InWorld(NeighbourKey(n, dir))
    /\ \E n \in ActiveLeaves(voxels), dir \in Directions :
          LET k == NeighbourKey(n, dir)
          IN  /\ k \in DOMAIN voxels.nodes
              /\ voxels.nodes[k].active
              /\ ~SameMaterial(n, voxels.nodes[k])

----------------------------------------------------------------------------
(* C2 *)

\* Node n is at a coordinate of the selections or face-adjacent to one.
NearSelection(n, selections) ==
    \E i \in DOMAIN selections :
        \E v \in {<<0, 0, 0>>} \cup { Step(dir) : dir \in Directions } :
            /\ n.x_index = selections[i][1] + v[1]
            /\ n.y_index = selections[i][2] + v[2]
            /\ n.z_index = selections[i][3] + v[3]

\* C2: after recalculate_occlusion_for_selections(S), every active leaf at a
\* coordinate of S or face-adjacent to one has the six occlusion flags a
\* full recalculate_occlusion would give it in the same state.
C2_SelectionsEqualFull ==
    last.op = "recalculate_occlusion_for_selections" =>
        LET full == recalculate_occlusion(voxels)
        IN  \A n \in ActiveLeaves(voxels) :
                NearSelection(n, last.selections) =>
                    \A dir \in Directions :
                        Flag(n, dir) = Flag(full.nodes[Key(n)], dir)

----------------------------------------------------------------------------
(* C3 *)

\* C3: prepare, then load_from_serial of its result into a tree newly built
\* to the same depth, gives a tree whose active_nodes equals the saved
\* tree's: the same nodes with the same colour, fluid, noise and six
\* occlusion flags, in the same order.
C3_RoundTrip ==
    last.op = "prepare_and_load" =>
        active_nodes(out, Root(out)) = active_nodes(voxels, Root(voxels))

\* A round trip of a tree with several active leaves, one of them with an
\* occluded face and one of a material that is not the default.
C3_Witness ==
    /\ last.op = "prepare_and_load"
    /\ Len(active_nodes(out, Root(out))) >= 4
    /\ \E n \in ActiveLeaves(voxels), dir \in Directions : Flag(n, dir)
    /\ \E n \in ActiveLeaves(voxels) : n.fluid = 1

----------------------------------------------------------------------------
(* C4 *)

\* C4: on the tree init() builds, after toggle_voxels(positions, true,
\* color, fluid, noise), find_by_index at the finest level of every position
\* with each component in [-R, R) returns a node, and that node is active
\* with exactly that colour, fluid and noise.
C4_ToggleThenFind ==
    (last.op = "toggle_voxels" /\ last.value /\ voxels.depth = LEVELS) =>
        \A i \in DOMAIN last.positions :
            LET C == last.positions[i]
                found == find_by_index(voxels, C[1], C[2], C[3], LEVELS)
            IN  InWorld(C) =>
                    /\ found # None
                    /\ found[1].active
                    /\ found[1].x_index = C[1]
                    /\ found[1].y_index = C[2]
                    /\ found[1].z_index = C[3]
                    /\ found[1].color = last.material.color
                    /\ found[1].fluid = last.material.fluid
                    /\ found[1].noise = last.material.noise

\* toggle_voxels([C], true, ...) was called with the single coordinate
\* C = (-R, -R, -R) and a material with noise.
C4_Witness ==
    /\ last.op = "toggle_voxels"
    /\ last.value
    /\ voxels.depth = LEVELS
    /\ last.positions = << <<-range, -range, -range>> >>
    /\ last.material.noise = 1
    /\ find_by_index(voxels, -range, -range, -range, LEVELS) # None

----------------------------------------------------------------------------
(* C5 *)

\* C5: immediately after Octree::new() and init()/decimate(L), for every
\* depth L, active_nodes() is the empty list, and no node that
\* find_by_index reaches is active.
C5_BuiltInactive ==
    last.op = "decimate" =>
        /\ active_nodes(voxels, Root(voxels)) = <<>>
        /\ ~Root(voxels).active
        /\ \A p \in Positions : \A level \in 1..LEVELS :
              LET found == find_by_index(voxels, p[1], p[2], p[3], level)
              IN  found # None => ~found[1].active

\* A tree just built with more than one level.
C5_Witness ==
    /\ last.op = "decimate"
    /\ last.depth > 1
    /\ voxels.depth = last.depth
    /\ Root(voxels).has_children

----------------------------------------------------------------------------
(* C6 *)

\* Keys a and b are of the same level and share a face.
Adjacent(a, b) ==
    /\ a[4] = b[4]
    /\ Abs(a[1] - b[1]) + Abs(a[2] - b[2]) + Abs(a[3] - b[3]) = Edge(a[4])
    /\ Cardinality({ i \in 1..3 : a[i] # b[i] }) = 1

RECURSIVE Grow(_, _, _)
\* The keys reached from `reached` over shared faces through active leaves
\* of tree t that are uniform with the node at `seed`.
Grow(t, seed, reached) ==
    LET more == { k \in DOMAIN t.nodes :
                    /\ t.nodes[k].active
                    /\ ~t.nodes[k].has_children
                    /\ SameMaterial(t.nodes[k], t.nodes[seed])
                    /\ \E r \in reached : Adjacent(k, r) }
    IN  IF more \subseteq reached THEN reached
        ELSE Grow(t, seed, reached \cup more)

\* The face-connected component of the seed.
Component(t, seed) == Grow(t, seed, {seed})

\* paint_connected_nodes was called right after a full
\* recalculate_occlusion, on a seed that was an active leaf.
PaintedAfterRecalculation ==
    /\ last.op = "paint_connected_nodes"
    /\ last.recalculated
    /\ last.collision \in DOMAIN last.before.nodes
    /\ last.before.nodes[last.collision].active
    /\ ~last.before.nodes[last.collision].has_children

\* C6: paint_connected_nodes called on an active seed leaf right after a
\* full recalculate_occlusion overwrites the colour, noise and fluid of
\* exactly the face-connected component, containing the seed, of the
\* active leaves that were uniform with the seed before the paint, and
\* changes nothing else.
C6_PaintComponent ==
    PaintedAfterRecalculation =>
        LET before == last.before
            painted == Component(before, last.collision)
        IN  /\ voxels.depth = before.depth
            /\ DOMAIN voxels.nodes = DOMAIN before.nodes
            /\ \A k \in DOMAIN before.nodes :
                  voxels.nodes[k] =
                      IF k \in painted
                      THEN [before.nodes[k] EXCEPT
                               !.color = last.material.color,
                               !.noise = last.material.noise,
                               !.fluid = last.material.fluid]
                      ELSE before.nodes[k]
            /\ { out[i] : i \in DOMAIN out } = painted
            /\ Len(out) = Cardinality(painted)

\* A paint of a component of three leaves with another colour, next to an
\* active leaf of another material that stays as it was.
C6_Witness ==
    /\ PaintedAfterRecalculation
    /\ Cardinality(Component(last.before, last.collision)) >= 3
    /\ last.material.color # last.before.nodes[last.collision].color
    /\ \E k \in DOMAIN last.before.nodes :
          /\ last.before.nodes[k].active
          /\ k \notin Component(last.before, last.collision)
          /\ Adjacent(k, last.collision)
          /\ voxels.nodes[k] = last.before.nodes[k]

----------------------------------------------------------------------------
(* C7 *)

\* C7: immediately after a full recalculate_occlusion, for any two active
\* leaves A and B that share a face and are uniform, A's flag toward B is
\* true if and only if B's flag toward A is true.
C7_OcclusionSymmetry ==
    last.op = "recalculate_occlusion" =>
        \A A \in ActiveLeaves(voxels), B \in ActiveLeaves(voxels) :
            \A dir \in Directions :
                (Key(B) = NeighbourKey(A, dir) /\ SameMaterial(A, B)) =>
                    (Flag(A, dir) <=> Flag(B, Opposite(dir)))

\* A recalculated tree with a uniform active pair across an x face, a y
\* face and a z face.
C7_Witness ==
    /\ last.op = "recalculate_occlusion"
    /\ \A dir \in {"right", "top", "back"} :
          \E A \in ActiveLeaves(voxels), B \in ActiveLeaves(voxels) :
              /\ Key(B) = NeighbourKey(A, dir)
              /\ SameMaterial(A, B)
              /\ Flag(A, dir)

----------------------------------------------------------------------------
(* C8 *)

\* C8: calling recalculate_occlusion a second time with no edit in between
\* leaves the six occlusion flags, and every other attribute, of every
\* node as the first call left them.
C8_Idempotent ==
    last.op = "recalculate_occlusion" => recalculate_occlusion(voxels) = voxels

\* A recalculated tree in which one leaf has two occluded faces and another
\* active leaf has none.
C8_Witness ==
    /\ last.op = "recalculate_occlusion"
    /\ \E n \in ActiveLeaves(voxels) : Flag(n, "top") /\ Flag(n, "back")
    /\ \E n \in ActiveLeaves(voxels) : \A dir \in Directions : ~Flag(n, dir)

----------------------------------------------------------------------------
(* C9 *)

\* The occlusion flag of cube c toward dir.
CubeFlag(c, dir) ==
    CASE dir = "left"   -> c.left_occluded
      [] dir = "right"  -> c.right_occluded
      [] dir = "bottom" -> c.bottom_occluded
      [] dir = "top"    -> c.top_occluded
      [] dir = "front"  -> c.front_occluded
      [] dir = "back"   -> c.back_occluded

\* The triangles of the geometry of cube c: the positions of each three
\* consecutive vertices.
Triangles(c) ==
    LET v == vertices(c)
    IN  { << v[3 * j - 2].position, v[3 * j - 1].position, v[3 * j].position >> :
            j \in 1..(Len(v) \div 3) }

\* Point p lies on the side of the centre of cube c that dir names.
Toward(p, dir, c) ==
    CASE dir = "left"   -> p[1] < c.center
      [] dir = "right"  -> p[1] > c.center
      [] dir = "bottom" -> p[2] < c.center
      [] dir = "top"    -> p[2] > c.center
      [] dir = "front"  -> p[3] < c.center
      [] dir = "back"   -> p[3] > c.center

\* The triangles of the face of cube c toward dir: those with every corner
\* on that side of the centre.
FaceTriangles(c, dir) ==
    { tri \in Triangles(c) : \A i \in 1..3 : Toward(tri[i], dir, c) }

\* The four triangles of a face fan around one point and their outer edges
\* close a ring: the face is whole.
WholeFace(tris) ==
    /\ Cardinality(tris) = 4
    /\ \A a \in tris, b \in tris : a[3] = b[3]
    /\ \A a \in tris : a[1] # a[2]
    /\ \A a \in tris :
          Cardinality({ b \in tris : b # a /\ {a[1], a[2]} \cap {b[1], b[2]} # {} }) = 2

\* Cube c emits the whole face toward every direction whose flag is
\* false, and nothing else.
Culled(c) ==
    /\ \A dir \in Directions :
          IF CubeFlag(c, dir) THEN FaceTriangles(c, dir) = {}
          ELSE WholeFace(FaceTriangles(c, dir))
    /\ Len(vertices(c)) = 12 * Cardinality({ dir \in Directions : ~CubeFlag(c, dir) })
    /\ Triangles(c) = UNION { FaceTriangles(c, dir) : dir \in Directions }

\* A unit cube for every combination of the six flags, flat and smooth.
FlagCubes ==
    { [ CubeNew EXCEPT
          !.scale = Unit,
          !.smooth = smooth,
          !.left_occluded = f["left"],
          !.right_occluded = f["right"],
          !.bottom_occluded = f["bottom"],
          !.top_occluded = f["top"],
          !.front_occluded = f["front"],
          !.back_occluded = f["back"] ] :
        f \in [Directions -> BOOLEAN], smooth \in BOOLEAN }

CulledForEveryCombination == \A c \in FlagCubes : Culled(c)

\* The leaves at (0,0,0) and (1,0,0) are active and uniform.
AdjacentPair(t) ==
    /\ <<0, 0, 0, LEVELS>> \in DOMAIN t.nodes
    /\ <<1, 0, 0, LEVELS>> \in DOMAIN t.nodes
    /\ t.nodes[<<0, 0, 0, LEVELS>>].active
    /\ t.nodes[<<1, 0, 0, LEVELS>>].active
    /\ SameMaterial(t.nodes[<<0, 0, 0, LEVELS>>], t.nodes[<<1, 0, 0, LEVELS>>])

\* C9: for every combination of the six occlusion flags, the vertices of a
\* cube hold the whole triangle set of a face if and only if the flag of
\* that face is false, and no vertex of a face whose flag is true; and
\* with (0,0,0) and (1,0,0) active and uniform, after recalculate_occlusion
\* the drawable of (0,0,0) has no +X triangle and that of (1,0,0) no -X
\* triangle.
C9_FaceCulling ==
    /\ CulledForEveryCombination
    /\ (last.op = "recalculate_occlusion" /\ AdjacentPair(voxels)) =>
          LET cubes == drawables(voxels, Root(voxels))
          IN  /\ \E i \in DOMAIN cubes : cubes[i].translation = <<0, 0, 0>>
              /\ \E i \in DOMAIN cubes : cubes[i].translation = <<1, 0, 0>>
              /\ \A i \in DOMAIN cubes :
                    /\ Culled(cubes[i])
                    /\ cubes[i].translation = <<0, 0, 0>> =>
                          FaceTriangles(cubes[i], "right") = {}
                    /\ cubes[i].translation = <<1, 0, 0>> =>
                          FaceTriangles(cubes[i], "left") = {}

\* The scenario: (0,0,0) and (1,0,0) active and uniform after
\* recalculate_occlusion, and the drawable of (0,0,0) still has its -X
\* face, (1,0,0) at it being of another material.
C9_Witness ==
    /\ last.op = "recalculate_occlusion"
    /\ AdjacentPair(voxels)
    /\ \E i \in DOMAIN drawables(voxels, Root(voxels)) :
          LET c == drawables(voxels, Root(voxels))[i]
          IN  /\ c.translation = <<0, 0, 0>>
              /\ c.right_occluded
              /\ Cardinality(FaceTriangles(c, "left")) = 4

----------------------------------------------------------------------------
(* C10 *)

\* The cube is the one leaf n is drawn as.
CubeOfLeaf(c, n) ==
    /\ c.translation = <<n.x_index, n.y_index, n.z_index>>
    /\ c.scale = Edge(n.sub_division_level) * Unit
    /\ c.color = n.color
    /\ c.fluid = n.fluid
    /\ c.noise = n.noise
    /\ \A dir \in Directions : CubeFlag(c, dir) = Flag(n, dir)

----------------------------------------------------------------------------
(* C11 *)

\* The finest-level leaf the coordinate c resolves to exists: the tree is
\* built to the finest level and c is inside it.
Resolves(t, c) == t.depth = LEVELS /\ InWorld(c)

\* The node of key k as it is now: what was written to it, or inactive as
\* built.
ActiveAt(t, k) == k \in DOMAIN t.nodes /\ t.nodes[k].active

\* C11: all_voxels_active answers false exactly when one of the listed
\* coordinates resolves to a finest-level leaf that is inactive; a coordinate
\* that resolves to no leaf is ignored, and the empty list answers true.
C11_AllVoxelsActive ==
    last.op = "all_voxels_active" =>
        ( out = FALSE <=>
            \E i \in DOMAIN last.positions :
                /\ Resolves(voxels, last.positions[i])
                /\ ~ ActiveAt(voxels, <<last.positions[i][1],
                                        last.positions[i][2],
                                        last.positions[i][3], LEVELS>>) )

\* The answer is true for a list with an active leaf and two coordinates
\* outside the tree.
C11_Witness ==
    /\ last.op = "all_voxels_active"
    /\ out = TRUE
    /\ \E i \in DOMAIN last.positions : ~ InWorld(last.positions[i])
    /\ \E i \in DOMAIN last.positions :
          /\ Resolves(voxels, last.positions[i])
          /\ ActiveAt(voxels, <<last.positions[i][1], last.positions[i][2],
                                last.positions[i][3], LEVELS>>)

----------------------------------------------------------------------------
(* C12 *)

\* The child slot (1..8, as subdivide fills them) of the ancestor of level
\* l of the node n, or n itself, in that ancestor's parent.
Slot(n, l) ==
    CHOOSE i \in 1..8 :
        ChildSteps[i] = << ((n.x_index + range) \div Edge(l)) % 2,
                           ((n.y_index + range) \div Edge(l)) % 2,
                           ((n.z_index + range) \div Edge(l)) % 2 >>

\* The walk from the root, children in order, meets the node a before the
\* node b; neither is inside the other.
Before(a, b) ==
    \E l \in 2..LEVELS :
        /\ l <= a.sub_division_level
        /\ l <= b.sub_division_level
        /\ Slot(a, l) < Slot(b, l)
        /\ \A j \in 2..(l - 1) : Slot(a, j) = Slot(b, j)

\* C12: prepare returns exactly one record for each active leaf, in the
\* order of the walk, no record for an inactive node and none for a branch.
C12_PrepareActiveLeaves ==
    last.op = "prepare" =>
        LET records == out.active_nodes
        IN  /\ \A i \in DOMAIN records :
                 /\ records[i].active
                 /\ ~ records[i].has_children
                 /\ records[i] \in ActiveLeaves(voxels)
            /\ \A n \in ActiveLeaves(voxels) :
                 Cardinality({ i \in DOMAIN records : records[i] = n }) = 1
            /\ \A i, j \in DOMAIN records :
                 i < j => Before(records[i], records[j])

----------------------------------------------------------------------------
(* C13 *)

\* A tree built to this depth has a node of key k: the level is one of the
\* tree's, the index is inside the tree and on the grid of the level.
NodeExists(depth, k) ==
    /\ k[4] \in 1..depth
    /\ InWorld(<<k[1], k[2], k[3]>>)
    /\ \A i \in 1..3 : (k[i] + range) % Edge(k[4]) = 0

\* The records of key k, by their place in the stored list.
Matching(records, k) == { i \in DOMAIN records : Key(records[i]) = k }

\* The last of them.
LastOf(places) == CHOOSE i \in places : \A j \in places : j <= i

\* C13: after load_from_serial a node is active exactly when a record has
\* its (x, y, z, level) and the last such record is active; a node with a
\* record carries the last record's colour, fluid, noise and six flags; a
\* node without one is as before the load but inactive; a record with the
\* coordinate of no node changes nothing.
C13_LoadFromSerial ==
    last.op = "load_from_serial" =>
        LET records == last.source.active_nodes
            before == last.before
            keys == DOMAIN voxels.nodes \cup DOMAIN before.nodes
                        \cup { Key(records[i]) : i \in DOMAIN records }
        IN  \A k \in keys :
                IF NodeExists(voxels.depth, k) /\ Matching(records, k) # {}
                THEN LET r == records[LastOf(Matching(records, k))]
                     IN  /\ k \in DOMAIN voxels.nodes
                         /\ voxels.nodes[k].active = r.active
                         /\ SameMaterial(voxels.nodes[k], r)
                         /\ \A dir \in Directions :
                               Flag(voxels.nodes[k], dir) = Flag(r, dir)
                ELSE /\ ~ ActiveAt(voxels, k)
                     /\ IF k \in DOMAIN before.nodes
                        THEN /\ k \in DOMAIN voxels.nodes
                             /\ voxels.nodes[k] =
                                   [before.nodes[k] EXCEPT !.active = FALSE]
                        ELSE k \notin DOMAIN voxels.nodes

\* A load into a tree with an active leaf no record names, of a stored list
\* with two records of one leaf and a record of no node.
C13_Witness ==
    /\ last.op = "load_from_serial"
    /\ voxels.depth = LEVELS
    /\ \E k \in DOMAIN last.before.nodes :
          /\ last.before.nodes[k].active
          /\ Matching(last.source.active_nodes, k) = {}
    /\ \E i \in DOMAIN last.source.active_nodes :
          ~ NodeExists(voxels.depth, Key(last.source.active_nodes[i]))
    /\ \E i, j \in DOMAIN last.source.active_nodes :
          /\ i < j
          /\ Key(last.source.active_nodes[i]) = Key(last.source.active_nodes[j])
          /\ NodeExists(voxels.depth, Key(last.source.active_nodes[i]))

----------------------------------------------------------------------------
(* C14 *)

\* A record of the stored list has the coordinate of no node of the tree.
Dropped(t, records) ==
    \E i \in DOMAIN records : ~ NodeExists(t.depth, Key(records[i]))

\* C14: a load in which a record matched no node returns to its caller
\* something a load in which every record matched does not return.
C14_LoadReportsDrops ==
    (last.op = "load_from_serial"
        /\ Dropped(voxels, last.source.active_nodes)) => out # NoOut

----------------------------------------------------------------------------
(* C15 *)

\* The finest-level key of a position.
LeafKey(position) == <<position[1], position[2], position[3], LEVELS>>

\* The step is a toggle_voxels call: the nodes the listed positions resolve
\* to are written, every other node is as it was, and a position that
\* resolves to no node adds none.
ToggleWritesResolvedOnly ==
    LET positions == last'.positions
        resolved == { LeafKey(positions[i]) :
                        i \in { j \in DOMAIN positions :
                                  Resolves(voxels, positions[j]) } }
    IN  /\ voxels'.depth = voxels.depth
        /\ DOMAIN voxels'.nodes = DOMAIN voxels.nodes \cup resolved
        /\ \A k \in resolved :
              /\ voxels'.nodes[k].active = last'.value
              /\ SameMaterial(voxels'.nodes[k], last'.material)
        /\ \A k \in DOMAIN voxels.nodes \ resolved :
              voxels'.nodes[k] = voxels.nodes[k]

\* C15: a lookup miss is a no-op. toggle_voxels leaves the tree as it was
\* for a coordinate that resolves to no node and applies the others;
\* paint_connected_nodes with a seed that matches no node changes nothing
\* and completes no coordinate.
C15_MissIsNoOp ==
    [][ /\ (last'.op = "toggle_voxels" /\ ops' = ops + 1)
            => ToggleWritesResolvedOnly
        /\ (last'.op = "paint_connected_nodes" /\ ops' = ops + 1
                /\ ~ NodeExists(voxels.depth, last'.collision))
            => (voxels' = voxels /\ out' = <<>>) ]_vars

\* toggle_voxels has written a leaf from a list with coordinates outside the
\* tree.
C15_Witness ==
    /\ last.op = "toggle_voxels"
    /\ \E i \in DOMAIN last.positions : ~ Resolves(voxels, last.positions[i])
    /\ \E i \in DOMAIN last.positions :
          /\ Resolves(voxels, last.positions[i])
          /\ ActiveAt(voxels, LeafKey(last.positions[i]))

----------------------------------------------------------------------------
(* C16 *)

\* The index on one axis of the node of level l that holds the finest-level
\* index i.
Aligned(i, l) == i - ((i + range) % Edge(l))

\* C16: decimate(d) with d below the finest level (d > LEVELS) aborts the
\* build; with 1 <= d <= LEVELS it completes and the leaves are at level d:
\* above every position there is a node without children at level d, and a
\* node with children at every level before d. The first two lines are the
\* recursion of decimate alone, for every depth up to twice LEVELS.
C16_DecimateDepth ==
    /\ \A d \in 1..LEVELS :
          ~ decimate_panics(1, d) /\ decimate_depth(1, d) = d
    /\ \A d \in (LEVELS + 1)..(2 * LEVELS) : decimate_panics(1, d)
    /\ last.op = "decimate" =>
        IF last.depth > LEVELS
        THEN pc = "panicked"
        ELSE /\ pc = "built"
             /\ \A p \in { q \in Positions : InWorld(q) } :
                   \A l \in 1..last.depth :
                       LET found == find_by_index(voxels, Aligned(p[1], l),
                                       Aligned(p[2], l), Aligned(p[3], l), l)
                       IN  /\ found # None
                           /\ found[1].has_children <=> l < last.depth
             /\ \A p \in Positions : \A l \in (last.depth + 1)..OctreeLEVELS :
                   find_by_index(voxels, Aligned(p[1], LEVELS),
                       Aligned(p[2], LEVELS), Aligned(p[3], LEVELS), l) = None

\* A build asked for a ninth level has aborted.
C16_Witness ==
    /\ last.op = "decimate"
    /\ last.depth = LEVELS + 1
    /\ pc = "panicked"

----------------------------------------------------------------------------
(* C17 *)

\* The line through near and far (in halves) has a point in the closed cube
\* of the leaf n: on an axis the line does not move along, near lies within
\* the cube's extent; on the others, the ranges of t for which the point is
\* within the extent have a t in common. A range is
\* [TLow / Divisor, THigh / Divisor].
Meets(n, near, far) ==
    LET index == <<n.x_index, n.y_index, n.z_index>>
        low(b) == index[b] * Edge(n.sub_division_level) * Half
        high(b) == (index[b] + 1) * Edge(n.sub_division_level) * Half
        d(b) == far[b] - near[b]
        Divisor(b) == Abs(d(b))
        Sign(b) == IF d(b) < 0 THEN -1 ELSE 1
        TLow(b) == Min((low(b) - near[b]) * Sign(b),
                       (high(b) - near[b]) * Sign(b))
        THigh(b) == Max((low(b) - near[b]) * Sign(b),
                        (high(b) - near[b]) * Sign(b))
        moving == { b \in 1..3 : d(b) # 0 }
    IN  /\ moving # {}
        /\ \A b \in (1..3) \ moving : low(b) <= near[b] /\ near[b] <= high(b)
        /\ \A b, c \in moving : TLow(b) * Divisor(c) <= THigh(c) * Divisor(b)

\* The squared distance from the point to the index of the leaf, in halves.
SquaredDistance(n, point) ==
    calculate_distance_squared(
        point, <<n.x_index * Half, n.y_index * Half, n.z_index * Half>>)

----------------------------------------------------------------------------
(* C18 *)

\* C18: paint_connected_nodes returns, whatever the cached flags, and its
\* completed vector, which gets one element for every node recoloured, holds
\* no coordinate twice and only coordinates of nodes of the tree.
C18_PaintOnce ==
    last.op = "paint_connected_nodes" =>
        /\ \A i, j \in DOMAIN out : i # j => out[i] # out[j]
        /\ \A i \in DOMAIN out : NodeExists(voxels.depth, out[i])

\* A paint over two leaves whose flags pointed at each other and over an
\* inactive leaf a stale flag pointed at.
C18_Witness ==
    /\ last.op = "paint_connected_nodes"
    /\ \E a \in ActiveLeaves(last.before), dir \in Directions :
          /\ Flag(a, dir)
          /\ NeighbourKey(a, dir) \in DOMAIN last.before.nodes
          /\ Flag(last.before.nodes[NeighbourKey(a, dir)], Opposite(dir))
          /\ InList(out, Key(a))
          /\ InList(out, NeighbourKey(a, dir))
    /\ \E a \in ActiveLeaves(last.before), dir \in Directions :
          /\ Flag(a, dir)
          /\ ~ ActiveAt(last.before, NeighbourKey(a, dir))
          /\ InList(out, Key(a))
          /\ InList(out, NeighbourKey(a, dir))

----------------------------------------------------------------------------
(* C19 *)

\* Every node written since the build is a node of the tree as built, under
\* its own index and level, with children exactly when its level is above
\* the depth the tree was built to, and then with eight of them, each a
\* node of the tree at its own place.
ShapeAsBuilt(t) ==
    \A k \in DOMAIN t.nodes :
        /\ NodeExists(t.depth, k)
        /\ Key(t.nodes[k]) = k
        /\ t.nodes[k].has_children <=> k[4] < t.depth
        /\ t.nodes[k].has_children =>
              /\ Cardinality({ Key(BuiltChild(t.depth, t.nodes[k], i)) :
                                 i \in 1..8 }) = 8
              /\ \A i \in 1..8 :
                    LET child == BuiltChild(t.depth, t.nodes[k], i)
                    IN  /\ NodeExists(t.depth, Key(child))
                        /\ child.sub_division_level = k[4] + 1
                        /\ \A b \in 1..3 :
                              /\ Key(child)[b] >= k[b]
                              /\ Key(child)[b] < k[b] + Edge(k[4])

\* C19: after the build every node has eight children or none, has_children
\* says which, and no operation adds, removes or re-indexes a node: every
\* step from a built tree leaves the depth it was built to, and every built
\* state has the shape above.
C19_ShapeInvariant ==
    [][ pc' = "built" =>
            /\ ShapeAsBuilt(voxels')
            /\ pc = "built" => voxels'.depth = voxels.depth ]_vars

\* A load has written a leaf from a record marked as a branch and a branch
\* of the tree from a record.
C19_Witness ==
    /\ last.op = "load_from_serial"
    /\ \E k \in DOMAIN voxels.nodes : voxels.nodes[k].has_children
    /\ \E i \in DOMAIN last.source.active_nodes :
          /\ Key(last.source.active_nodes[i]) \in DOMAIN voxels.nodes
          /\ last.source.active_nodes[i].has_children
          /\ ~ voxels.nodes[Key(last.source.active_nodes[i])].has_children

----------------------------------------------------------------------------
(* C20 *)

\* C20: in every state of the editor, for every active leaf and every
\* direction, a flag that is set has behind it a neighbour that exists, is
\* active and is of the leaf's colour, fluid and noise.
C20_NoVisibleFaceCulled ==
    \A n \in ActiveLeaves(voxels), dir \in Directions :
        Flag(n, dir) =>
            /\ NodeExists(voxels.depth, NeighbourKey(n, dir))
            /\ ActiveAt(voxels, NeighbourKey(n, dir))
            /\ SameMaterial(n, voxels.nodes[NeighbourKey(n, dir)])

----------------------------------------------------------------------------
(* C21 *)

\* C21: a click of the editor changes the colour, fluid or noise only of
\* leaves that, before the click, were active, uniform with the leaf picked
\* and joined to it over shared faces by such leaves.
C21_ClickPaintsComponent ==
    [][ (last'.op = "handle_mouse_click" /\ ops' = ops + 1) =>
            LET picked == find_first_collision(voxels, last'.ray[1],
                                               last'.ray[2])
            IN  \A k \in DOMAIN voxels'.nodes :
                    ( \/ k \notin DOMAIN voxels.nodes
                      \/ ~ SameMaterial(voxels'.nodes[k], voxels.nodes[k]) )
                        => /\ picked # None
                           /\ k \in Component(voxels, picked[1]) ]_vars

----------------------------------------------------------------------------
(* C22 *)

\* The six flags of the node of key k: those written, or none set as built.
FlagsAt(t, k) ==
    [dir \in Directions |-> k \in DOMAIN t.nodes /\ Flag(t.nodes[k], dir)]

\* C22: the flags are derived state. A step that changes a flag of a node
\* is a recalculate_occlusion, a recalculate_occlusion_for_selections or a
\* load_from_serial, so toggle_voxels and the paint change none; and
\* toggle_voxels writes no node whose coordinate is not in its list.
C22_FlagsAreDerived ==
    [][ pc = "built" =>
          /\ (\E k \in DOMAIN voxels'.nodes \cup DOMAIN voxels.nodes :
                 FlagsAt(voxels', k) # FlagsAt(voxels, k))
                => last'.op \in { "recalculate_occlusion",
                                  "recalculate_occlusion_for_selections",
                                  "load_from_serial" }
          /\ (last'.op = "toggle_voxels" /\ ops' = ops + 1)
                => \A k \in DOMAIN voxels'.nodes :
                      (\A i \in DOMAIN last'.positions :
                           k # LeafKey(last'.positions[i]))
                         => /\ k \in DOMAIN voxels.nodes
                            /\ voxels'.nodes[k] = voxels.nodes[k] ]_vars

\* toggle_voxels has made a leaf inactive that keeps a flag set.
C22_Witness ==
    /\ last.op = "toggle_voxels"
    /\ ~ last.value
    /\ \E i \in DOMAIN last.positions, dir \in Directions :
          /\ LeafKey(last.positions[i]) \in DOMAIN voxels.nodes
          /\ Flag(voxels.nodes[LeafKey(last.positions[i])], dir)

----------------------------------------------------------------------------
(* C23 *)

\* The finest-level keys of the voxels of a selection that are inside the
\* tree.
InsideKeys(selections) ==
    { LeafKey(selections[i]) :
        i \in { j \in DOMAIN selections : InWorld(selections[j]) } }

\* C23: after handle_toggle_voxel the voxels of the selection inside the
\* tree are all inactive if every one of them was active before the call,
\* and otherwise all active with the scene's material, its colour clamped;
\* the voxels outside the tree do not count.
C23_ToggleDirection ==
    last.op = "handle_toggle_voxel" =>
        LET inside == InsideKeys(last.selections)
            all_active == \A k \in inside : ActiveAt(last.before, k)
        IN  \A k \in inside :
                IF all_active THEN ~ ActiveAt(voxels, k)
                ELSE /\ ActiveAt(voxels, k)
                     /\ voxels.nodes[k].color = Clamped(last.material.color)
                     /\ voxels.nodes[k].fluid = last.material.fluid
                     /\ voxels.nodes[k].noise = last.material.noise

\* A toggle of a selection with voxels outside the tree and, inside it,
\* some active and some inactive ones, of different materials.
C23_Witness ==
    /\ last.op = "handle_toggle_voxel"
    /\ \E i \in DOMAIN last.selections : ~ InWorld(last.selections[i])
    /\ \E k \in InsideKeys(last.selections) : ActiveAt(last.before, k)
    /\ \E k \in InsideKeys(last.selections) : ~ ActiveAt(last.before, k)
    /\ \E k \in InsideKeys(last.selections) :
          /\ ActiveAt(last.before, k)
          /\ last.before.nodes[k].color # last.material.color

----------------------------------------------------------------------------
(* C24 *)

\* The tree with the active flag of every node that has children cleared,
\* and nothing else changed.
BranchesInactive(t) ==
    [t EXCEPT !.nodes = [k \in DOMAIN t.nodes |->
                            IF t.nodes[k].has_children
                            THEN [t.nodes[k] EXCEPT !.active = FALSE]
                            ELSE t.nodes[k]]]

----------------------------------------------------------------------------
(* Lookup: the descent of find_by_index, node by node *)

RECURSIVE Descent(_, _, _, _, _, _)
RECURSIVE DescentChildren(_, _, _, _, _, _, _)

\* The loop of find_by_index over the children, with the nodes each call
\* made on the way tested: it stops at the first child whose search
\* succeeds.
DescentChildren(depth, self, i, x, y, z, level) ==
    IF i > 8 THEN [found |-> None, passed |-> {}, listed |-> {}]
    ELSE LET child == Descent(depth, BuiltChild(depth, self, i), x, y, z, level)
         IN  IF child.found # None THEN child
             ELSE LET rest == DescentChildren(depth, self, i + 1, x, y, z, level)
                  IN  [found |-> rest.found,
                       passed |-> child.passed \cup rest.passed,
                       listed |-> child.listed \cup rest.listed]

\* find_by_index / find_mut_by_index on the tree as built to `depth`: the
\* node found, the nodes that passed the containment test, and the nodes
\* whose children were iterated.
Descent(depth, self, x, y, z, level) ==
    IF level = self.sub_division_level
    THEN [found |-> IF self.x_index = x /\ self.y_index = y /\ self.z_index = z
                    THEN Some(self) ELSE None,
          passed |-> {}, listed |-> {}]
    ELSE IF Contains(self, x, y, z)
         THEN IF self.has_children
              THEN LET below == DescentChildren(depth, self, 1, x, y, z, level)
                   IN  [found |-> below.found,
                        passed |-> below.passed \cup {Key(self)},
                        listed |-> below.listed \cup {Key(self)}]
              ELSE [found |-> None, passed |-> {Key(self)}, listed |-> {}]
         ELSE [found |-> None, passed |-> {}, listed |-> {}]

\* The (x, y, z, level) find_by_index is called with.
FindQueries == { <<q[2], q[3], q[4], q[5]>> : q \in Queries }

\* Ocnode::find_by_index on the root; `out` is the descent it made.
FindByIndex(q) ==
    /\ pc = "built"
    /\ out' = Descent(voxels.depth, BuiltRoot(voxels.depth), q[1], q[2], q[3], q[4])
    /\ last' = [op |-> "find_by_index", query |-> q]
    /\ UNCHANGED <<voxels, pc, ops>>
    /\ UNCHANGED scene

FindNext ==
    \/ \E d \in BuildDepths \cup FatalDepths : Decimate(d)
    \/ \E q \in FindQueries : FindByIndex(q)

FindSpec == Init /\ [][FindNext]_vars

----------------------------------------------------------------------------
(* C25 *)

\* The nodes of one level among a set of keys.
AtLevel(keys, l) == { k \in keys : k[4] = l }

\* C25: in a find_by_index, at each level of the tree at most one node
\* passes the containment test for the query point, and the children of at
\* most LEVELS nodes are iterated.
C25_SinglePath ==
    last.op = "find_by_index" =>
        /\ \A l \in 1..OctreeLEVELS : Cardinality(AtLevel(out.passed, l)) <= 1
        /\ Cardinality(out.listed) <= LEVELS

----------------------------------------------------------------------------
(* C26 *)

----------------------------------------------------------------------------
(* C27 *)

\* Every triangle of the vertices of cube c carries, on its three vertices,
\* the cross product of its own two edges from the face centre (its third
\* vertex) to its first and second vertex.
OwnNormals(c) ==
    LET v == vertices(c)
    IN  \A j \in 1..(Len(v) \div 3) :
            LET own == CrossAt(v[3 * j - 2].position, v[3 * j - 1].position,
                               v[3 * j].position)
            IN  \A i \in (3 * j - 2)..(3 * j) : v[i].normal = own

\* C27: every triangle of Cube::vertices(), of each cube drawables()
\* returns, stores on its three vertices the cross product of its own two
\* edge vectors.
C27_OwnNormals ==
    last.op = "drawables" => \A i \in DOMAIN out : OwnNormals(out[i])

----------------------------------------------------------------------------
(* Editing: every operation of the tree, with loads of saved trees only *)

\* How many toggles, paints and loads a behaviour of EditSpec makes.
MaxEditOps == 2

\* The tree Octree::init() builds.
InitTree == [depth |-> decimate_depth(1, LEVELS), nodes |-> <<>>]

\* The StoredOctrees prepare() returns on trees built by init() and then
\* edited: nothing toggled, and each selection toggled on in green with the
\* occlusion recalculated.
PreparedOctrees ==
    { prepare(InitTree) } \cup
    { prepare(recalculate_occlusion(
          toggle_voxels(InitTree, positions, TRUE, GreenMaterial.color,
                        GreenMaterial.fluid, GreenMaterial.noise))) :
        positions \in Selections }

\* Octree::paint_first_collision
PaintFirstCollision(ray, m) ==
    /\ pc = "built"
    /\ voxels' = paint_first_collision(voxels, ray[1], ray[2], m.color,
                                       m.noise, m.fluid)
    /\ ops' = ops + 1
    /\ last' = [op |-> "paint_first_collision", ray |-> ray, material |-> m]
    /\ out' = NoOut
    /\ UNCHANGED pc
    /\ UNCHANGED scene

EditNext ==
    \/ \E d \in BuildDepths \cup FatalDepths : Decimate(d)
    \/ \E positions \in Selections, mode \in ToggleModes :
          ops < MaxEditOps /\ ToggleVoxels(positions, mode[1], mode[2])
    \/ RecalculateOcclusion
    \/ \E selections \in Selections :
          RecalculateOcclusionForSelections(selections)
    \/ \E collision \in Collisions, m \in PaintMaterials :
          ops < MaxEditOps /\ PaintConnectedNodes(collision, m)
    \/ \E ray \in Rays, m \in PaintMaterials :
          ops < MaxEditOps /\ PaintFirstCollision(ray, m)
    \/ \E source \in PreparedOctrees :
          ops < MaxEditOps /\ LoadFromSerial(source)
    \/ \E camera_eye \in CameraEyes : Optimize(camera_eye)
    \/ \E ray \in Rays : FindFirstCollision(ray)
    \/ Drawables
    \/ Prepare

EditSpec == Init /\ [][EditNext]_vars

----------------------------------------------------------------------------
(* C28 *)

----------------------------------------------------------------------------
(* C29 *)

\* Colour, fluid and noise of the node of key k: those written, or the
\* ones subdivide gave it.
MaterialAt(t, k) ==
    IF k \in DOMAIN t.nodes
    THEN << t.nodes[k].color, t.nodes[k].fluid, t.nodes[k].noise >>
    ELSE << DefaultColor, 0, 0 >>

----------------------------------------------------------------------------
(* Drawing: the handlers that invalidate the caches, and Scene::draw *)

\* How many toggles, clicks and draws a behaviour of DrawSpec makes.
MaxDrawOps == 4

\* The selections toggled between draws: the origin and its neighbour on x.
DrawSelections ==
    { << <<0, 0, 0>>, 1, "Sphere" >>, << <<1, 0, 0>>, 1, "Sphere" >> }

\* The ray clicked along between draws: along x through the origin leaf.
DrawRays == { << <<-8, 1, 1>>, <<8, 1, 1>> >> }

\* Scene::handle_move_selection_left and the other handlers that move the
\* selection: the position they change is an input of the next toggle; here
\* they set the flag.
HandleMoveSelection ==
    /\ pc = "built"
    /\ scene' = [scene EXCEPT !.invalidate_selection_render_cache = TRUE]
    /\ last' = [op |-> "handle_move_selection"]
    /\ out' = NoOut
    /\ UNCHANGED <<voxels, pc, ops>>

\* Scene::handle_move_up and the other handlers that move the camera:
\* optimize, then the flag.
HandleMoveCamera(camera_eye) ==
    /\ pc = "built"
    /\ voxels' = optimize(voxels, camera_eye)
    /\ scene' = [scene EXCEPT !.invalidate_drawables_cache = TRUE]
    /\ last' = [op |-> "handle_move_camera", camera_eye |-> camera_eye]
    /\ out' = NoOut
    /\ UNCHANGED <<pc, ops>>

\* Scene::draw: the caches are rebuilt as the flags ask; what is sent to
\* the graphics is read from them.
Draw ==
    /\ pc = "built"
    /\ scene' = draw(scene, voxels)
    /\ ops' = ops + 1
    /\ last' = [op |-> "draw", before |-> scene]
    /\ out' = NoOut
    /\ UNCHANGED <<voxels, pc>>

DrawNext ==
    \/ \E selection \in DrawSelections, m \in SceneMaterials :
          ops < MaxDrawOps /\ HandleToggleVoxel(selection, m)
    \/ \E ray \in DrawRays, m \in SceneMaterials :
          ops < MaxDrawOps /\ HandleMouseClick(ray, m)
    \/ HandleMoveSelection
    \/ \E camera_eye \in CameraEyes : HandleMoveCamera(camera_eye)
    \/ ops < MaxDrawOps /\ Draw

DrawSpec == SceneInit /\ [][DrawNext]_vars

----------------------------------------------------------------------------
(* C30 *)

RECURSIVE VerticesOf(_, _, _)
\* The vertices of the cubes of a list that have this material, each cube
\* once, in the order of the list.
VerticesOf(cubes, material, i) ==
    IF i > Len(cubes) THEN <<>>
    ELSE (IF MaterialNew(cubes[i].color, cubes[i].noise, cubes[i].fluid) = material
          THEN vertices_world(cubes[i]) ELSE <<>>)
         \o VerticesOf(cubes, material, i + 1)

\* The render cache holds, for each material of a cube of drawables_cache,
\* the vertices of the cubes of that material once each, and no other
\* vertex.
RenderedOnce(s) ==
    /\ \A i \in DOMAIN s.drawables_cache :
          MaterialNew(s.drawables_cache[i].color, s.drawables_cache[i].noise,
                      s.drawables_cache[i].fluid) \in DOMAIN s.render_cache
    /\ \A material \in DOMAIN s.render_cache :
          s.render_cache[material] = VerticesOf(s.drawables_cache, material, 1)

\* C30: after every Scene::draw, whichever flags asked for the rebuild, the
\* render cache holds for each material the vertices of each cube of
\* drawables_cache exactly once.
C30_RenderedOnce ==
    last.op = "draw" => RenderedOnce(scene)

====
